---- MODULE Spec2Model ----
(***************************************************************************)
(* Verification model of the ernest bundler / dev server.                  *)
(*                                                                         *)
(* Three parts of the program are modelled, each with its own              *)
(* specification over the same variables:                                  *)
(*   Spec       the dev compile pass (compileProject) with the persisted   *)
(*              route cache, the in-memory file cache and router.js        *)
(*   SpecWatch  the dev file watcher: debounce timer, in-flight flag,      *)
(*              rebuild callback and client notifications                  *)
(*   SpecBuild  the production build: island detection, static HTML        *)
(*              extraction and the per-route HTML documents                *)
(***************************************************************************)
EXTENDS Integers, Sequences, FiniteSets, TLC

VARIABLES
  \* ---- source tree and dev compile pass (Spec) ----
  files,          \* source tree: file -> NoFile or [content, readable]
  diskCache,      \* .ernest/route-cache.json: AbsentCache or [state, map: path -> hash]
  cache,          \* RouteCache.cache of the latest RouteCache instance
  routes,         \* route list discovered by the latest pass
  changedRoutes,  \* result of getChangedRoutes in the latest pass
  compiled,       \* .ernest/compiled: file -> NoOutput or compiled output
  router,         \* .ernest/compiled/router.js: NoRouter or its route table
  fileCache,      \* module-level fileCache Map, entry of the file's current key
  pc,             \* "idle", or "running" while compileProject awaits compileDirectory
  outcome,        \* how the latest pass ended: "none", "ok", "failed"
  units,          \* file-compile promises of the awaited pass: file -> status
  orphans,        \* promises of passes that already threw, still pending
  \* history variables of the compile pass
  startCompiled,  \* compiled as it was when the latest pass began
  startRouter,    \* router as it was when the latest pass began
  unmodified,     \* no source/cache-file modification since the latest change check
  recheck,        \* the latest change check ran with unmodified true
  \* ---- dev watcher (SpecWatch) ----
  isRecompiling,  \* the in-flight flag
  recompileTimeout, \* handle of the latest debounce timer (0: none yet)
  timers,         \* pending debounce timers: set of [id, left]
  reloadTimers,   \* pending delayed-reload timers: set of [rebuild, left]
  clients,        \* the Set of connected websocket clients
  dead,           \* clients whose socket is gone and whose close handler has not run
  sent,           \* broadcast log: sequence of [type, rebuild]
  running,        \* rebuild callbacks between start and finally
  results,        \* rebuild id -> "running", "ok", "failed"
  nEvents,        \* number of source change events so far
  \* history variables of the watcher
  sinceEvent,     \* ms since the latest source change event (saturating)
  burstRebuilds,  \* rebuilds started since the current burst of events began
  startGap,       \* sinceEvent when the latest rebuild started
  dirty,          \* a change event arrived after the latest rebuild started
  burstEvents,    \* change events of the current burst
  drops,          \* debounce timers that fired while the in-flight flag was set
  \* ---- production build (SpecBuild) ----
  sources,        \* route file -> source text, a sequence of fragments
  stage,          \* build stage
  buildRoutes,    \* routes returned by compileForBuild
  serverIslands,  \* routes compileForBuild classified as Server Islands
  docs,           \* written HTML documents, in the order written
  buildLog,       \* logger.error / logger.warn lines of the build
  bundlePath,     \* path of the main bundle relative to the output directory
  config,         \* the configuration: [serverIslands]
  pagesDir,       \* src/pages exists
  buildDir,       \* .ernestbuild exists
  exitCode,       \* "running", or the exit status of the build process: "0", "1"
  failedStage,    \* the step of buildUI that threw, "none" if none did
  ran,            \* the steps of buildUI that have run
  processed,      \* routes processSingleRoute has handled in this build
  \* ---- the change detector on its own (SpecDetect) ----
  instance,       \* what this.cache of the live RouteCache is: "none" (no instance),
                  \* "object", "array", "null", "scalar"
  thrown,         \* the latest constructor / getChangedRoutes call threw
  calls,          \* getChangedRoutes calls on the live instance so far (2: two or more)
  loadedFrom,     \* state of the cache file when the live instance was constructed
  removedFile,    \* the route file whose cache entry was removed last
  phase,          \* change checks since that removal, plus one (0: no removal)
  lastPhase,      \* phase at which the latest change check ran
  \* ---- route discovery on its own (SpecRoutes) ----
  listing,        \* the files under pages/, in the order the directory scan meets them
  devRoutes,      \* result of the dev compiler's discoverRoutes
  prodRoutes,     \* result of UICompiler.discoverRoutes
  scanned,        \* which of the two have run: subset of {"dev", "prod"}
  \* ---- the HTML lowering on its own (SpecExtract) ----
  element,        \* the return expression of the island, as written: tag, attributes, form
  captured,       \* returnMatch[1]: the text of that expression
  html,           \* the html extractStaticHTML returned for it
  extracted       \* extractStaticHTML has run on the current expression

varsCompile == <<files, diskCache, cache, routes, changedRoutes, compiled, router,
                 fileCache, pc, outcome, units, orphans,
                 startCompiled, startRouter, unmodified, recheck>>
varsWatch == <<isRecompiling, recompileTimeout, timers, reloadTimers, clients, dead, sent,
               running, results, nEvents, sinceEvent, burstRebuilds, startGap,
               dirty, burstEvents, drops>>
varsBuild == <<sources, stage, buildRoutes, serverIslands, docs, buildLog, bundlePath,
               config, pagesDir, buildDir, exitCode, failedStage, ran, processed>>
varsDetect == <<instance, thrown, calls, loadedFrom, removedFile, phase, lastPhase>>
varsRoutes == <<listing, devRoutes, prodRoutes, scanned>>
varsExtract == <<element, captured, html, extracted>>
vars == <<varsCompile, varsWatch, varsBuild, varsDetect, varsRoutes, varsExtract>>

\* absent values, of the same shape as the present ones
NoFile == [content |-> "none", readable |-> FALSE]
NoHash == [md5 |-> "none"]
NoOutput == [code |-> "none", routerImport |-> FALSE]
NoEntry == NoOutput
NoRouter == [exists |-> FALSE, table |-> <<>>]
AbsentCache == [state |-> "absent", map |-> <<>>]

(***************************************************************************)
(* The source tree.  A file is [dir, base, ext]; dir is relative to src/.  *)
(***************************************************************************)
IndexPage == [dir |-> <<"pages">>, base |-> "index", ext |-> ".jsx"]
IdPage == [dir |-> <<"pages">>, base |-> "[id]", ext |-> ".jsx"]

\* readdirSync order of the entries of src/ (recursively)
ReadDir == <<IdPage, IndexPage>>
SrcFiles == {ReadDir[i] : i \in 1..Len(ReadDir)}

\* file contents: one that transpiles, one the transpiler rejects
Contents == {"a", "bad"}
FileStates == {NoFile} \cup [content : Contents, readable : BOOLEAN]

Exists(f) == files[f] # NoFile
Readable(f) == Exists(f) /\ files[f].readable

RECURSIVE SeqMap(_, _)
SeqMap(Op(_), s) == IF s = <<>> THEN <<>> ELSE <<Op(Head(s))>> \o SeqMap(Op, Tail(s))

Range(s) == {s[i] : i \in 1..Len(s)}

(***************************************************************************)
(* Route discovery of the dev compiler (discoverRoutes).                   *)
(* A route path is the sequence of its segments: <<>> is "/".              *)
(* No directory of SrcFiles has a name starting with "index", so           *)
(* route.replace('/index', '') removes the file's own segment.             *)
(***************************************************************************)
IsDynamicName(base) == base = "[id]"

RouteOf(f) ==
  LET rel == SubSeq(f.dir, 2, Len(f.dir))
  IN [route |-> IF f.base = "index" THEN rel ELSE Append(rel, f.base),
      file |-> f,
      type |-> IF IsDynamicName(f.base) THEN "dynamic" ELSE "static"]

IsRouteFile(f) ==
  /\ Len(f.dir) >= 1 /\ f.dir[1] = "pages"
  /\ f.ext \in {".jsx", ".tsx", ".js", ".ts"}

discoverRoutes ==
  LET present(f) == Exists(f) /\ IsRouteFile(f)
  IN SeqMap(RouteOf, SelectSeq(ReadDir, present))

(***************************************************************************)
(* RouteCache (src/components/route-cache.js)                              *)
(***************************************************************************)
Hash(content) == [md5 |-> content]
Hashes == {Hash(c) : c \in Contents}
EmptyCache == [f \in SrcFiles |-> NoHash]
CacheValues == [SrcFiles -> Hashes \cup {NoHash}]

\* {} unless the file parses to an object; own properties set on an array
\* or read from null / a scalar are looked at in checkThrows and serialize
loadCache == IF diskCache.state = "valid" THEN diskCache.map ELSE EmptyCache

\* saveCache writes the in-memory mapping to the file
saveCache(c) == [state |-> "valid", map |-> c]

getRouteHash(route) ==
  IF Readable(route.file) THEN Hash(files[route.file].content) ELSE NoHash

\* faulty variant: the new hash is not stored in this.cache
RECURSIVE CheckRoutesNoStore(_, _, _)
CheckRoutesNoStore(rs, c, acc) ==
  IF rs = <<>> THEN [cache |-> c, changed |-> acc]
  ELSE LET r == Head(rs)
           currentHash == getRouteHash(r)
       IN IF currentHash = NoHash \/ c[r.file] # currentHash
          THEN CheckRoutesNoStore(Tail(rs), c, Append(acc, r))
          ELSE CheckRoutesNoStore(Tail(rs), c, acc)

\* hasRouteChanged over the whole list, threading the cache through the filter
RECURSIVE CheckRoutes(_, _, _)
CheckRoutes(rs, c, acc) ==
  IF rs = <<>> THEN [cache |-> c, changed |-> acc]
  ELSE LET r == Head(rs)
           currentHash == getRouteHash(r)
       IN IF currentHash = NoHash
          THEN CheckRoutes(Tail(rs), c, Append(acc, r))
          ELSE IF c[r.file] # currentHash
               THEN CheckRoutes(Tail(rs), [c EXCEPT ![r.file] = currentHash],
                                Append(acc, r))
               ELSE CheckRoutes(Tail(rs), c, acc)

hasRouteChanged(route, c) == Len(CheckRoutes(<<route>>, c, <<>>).changed) > 0

\* faulty variant: the cache file is never rewritten
getChangedRoutesNoSave(rs, c) ==
  LET res == CheckRoutes(rs, c, <<>>)
  IN [changed |-> res.changed, cache |-> res.cache, disk |-> diskCache]

getChangedRoutes(rs, c) ==
  LET res == CheckRoutes(rs, c, <<>>)
  IN [changed |-> res.changed,
      cache |-> res.cache,
      disk |-> IF Len(res.changed) > 0 THEN saveCache(res.cache) ELSE diskCache]

(***************************************************************************)
(* generateRouter: the route table written to router.js                    *)
(***************************************************************************)
RouteConfig(route) ==
  [path |-> route.route,
   component |-> [route.file EXCEPT !.ext = ".js"],
   type |-> route.type]

generateRouter(rs) == [exists |-> TRUE, table |-> SeqMap(RouteConfig, rs)]

(***************************************************************************)
(* One file-compile promise (compileFileWithCache + compileFile).          *)
(* The compiled text depends on the source text and on whether router.js   *)
(* exists when the file is compiled (the bertui/router import rewrite).    *)
(***************************************************************************)
Transpile(content, routerExists) == [code |-> content, routerImport |-> routerExists]
Outputs == {Transpile(c, b) : c \in Contents \ {"bad"}, b \in BOOLEAN}

UnitCached(f) == fileCache[f] # NoEntry
UnitThrows(f) == ~UnitCached(f) /\ (~Readable(f) \/ files[f].content = "bad")
UnitOutput(f) ==
  IF UnitCached(f) THEN fileCache[f]
  ELSE Transpile(files[f].content, router.exists)

TypeOKCompile ==
  /\ files \in [SrcFiles -> FileStates]
  /\ diskCache \in {AbsentCache} \cup {saveCache(c) : c \in CacheValues}
  /\ cache \in CacheValues
  /\ compiled \in [SrcFiles -> Outputs \cup {NoOutput}]
  /\ fileCache \in [SrcFiles -> Outputs \cup {NoEntry}]
  /\ pc \in {"idle", "running"}
  /\ outcome \in {"none", "ok", "failed"}
  /\ units \in [SrcFiles -> {"none", "pending", "done"}]
  /\ orphans \subseteq SrcFiles
  /\ unmodified \in BOOLEAN /\ recheck \in BOOLEAN

InitCompileRest ==
  /\ diskCache = AbsentCache
  /\ cache = EmptyCache
  /\ routes = <<>>
  /\ changedRoutes = <<>>
  /\ compiled = [f \in SrcFiles |-> NoOutput]
  /\ router = NoRouter
  /\ fileCache = [f \in SrcFiles |-> NoEntry]
  /\ pc = "idle"
  /\ outcome = "none"
  /\ units = [f \in SrcFiles |-> "none"]
  /\ orphans = {}
  /\ startCompiled = [f \in SrcFiles |-> NoOutput]
  /\ startRouter = NoRouter
  /\ unmodified = FALSE
  /\ recheck = FALSE

\* the dev server is started in a project with any source tree
InitCompile ==
  /\ files \in [SrcFiles -> {NoFile, [content |-> "a", readable |-> TRUE]}]
  /\ InitCompileRest

InitCompileIdle ==
  /\ files = [f \in SrcFiles |-> NoFile]
  /\ InitCompileRest

\* ---- the environment: the developer edits the tree ----
\* Once compileProject has returned or thrown and something is modified, the
\* record of the ended pass (its locals and the history variables) is dropped.
\* The tree is modified between passes, not while compileProject is awaited.
ForgetPass ==
  /\ pc = "idle"
  /\ routes' = <<>> /\ changedRoutes' = <<>> /\ outcome' = "none"
  /\ startCompiled' = compiled /\ startRouter' = router /\ recheck' = FALSE

WriteFile(f, c) ==
  /\ files' = [files EXCEPT ![f] = [content |-> c, readable |-> TRUE]]
  /\ fileCache' = [fileCache EXCEPT ![f] = NoEntry]   \* new size/mtime: a new key
  /\ unmodified' = FALSE
  /\ ForgetPass
  /\ UNCHANGED <<diskCache, cache, compiled, router, pc, units, orphans,
                 varsWatch, varsBuild, varsDetect, varsRoutes, varsExtract>>

DeleteFile(f) ==
  /\ Exists(f)
  /\ files' = [files EXCEPT ![f] = NoFile]
  /\ fileCache' = [fileCache EXCEPT ![f] = NoEntry]
  /\ unmodified' = FALSE
  /\ ForgetPass
  /\ UNCHANGED <<diskCache, cache, compiled, router, pc, units, orphans,
                 varsWatch, varsBuild, varsDetect, varsRoutes, varsExtract>>

\* chmod: size and mtime stay, so the fileCache key stays
Chmod(f) ==
  /\ Exists(f)
  /\ files' = [files EXCEPT ![f].readable = ~files[f].readable]
  /\ unmodified' = FALSE
  /\ ForgetPass
  /\ UNCHANGED <<diskCache, cache, compiled, router, fileCache, pc, units, orphans,
                 varsWatch, varsBuild, varsDetect, varsRoutes, varsExtract>>

\* the persisted cache file is removed (no RouteCache outlives the
\* synchronous block that uses it, so none is live when the file is touched)
ResetCache ==
  /\ diskCache # AbsentCache
  /\ diskCache' = AbsentCache
  /\ unmodified' = FALSE
  /\ ForgetPass
  /\ instance' = "none"
  /\ UNCHANGED <<files, cache, compiled, router, fileCache, pc, units, orphans,
                 thrown, calls, loadedFrom, removedFile, phase, lastPhase,
                 varsWatch, varsBuild, varsRoutes, varsExtract>>

\* the dev server process is stopped and started again
Restart ==
  /\ \/ pc # "idle" \/ orphans # {} \/ \E f \in SrcFiles : fileCache[f] # NoEntry
  /\ fileCache' = [f \in SrcFiles |-> NoEntry]
  /\ pc' = "idle"
  /\ units' = [f \in SrcFiles |-> "none"]
  /\ orphans' = {}
  /\ cache' = EmptyCache
  /\ routes' = <<>> /\ changedRoutes' = <<>> /\ outcome' = "none"
  /\ startCompiled' = compiled /\ startRouter' = router /\ recheck' = FALSE
  /\ UNCHANGED <<files, diskCache, compiled, router, unmodified,
                 varsWatch, varsBuild, varsDetect, varsRoutes, varsExtract>>

\* ---- compileProject ----
\* up to the first await of compileDirectory: discovery, the change check
\* (with its save) and the creation of one promise per source file
PassStart ==
  /\ pc = "idle"
  /\ LET rs == discoverRoutes
         res == getChangedRoutes(rs, loadCache)
     IN /\ routes' = rs
        /\ changedRoutes' = res.changed
        /\ cache' = res.cache
        /\ diskCache' = res.disk
  /\ units' = [f \in SrcFiles |-> IF Exists(f) THEN "pending" ELSE "none"]
  /\ pc' = "running"
  /\ outcome' = "none"
  /\ startCompiled' = compiled
  /\ startRouter' = router
  /\ recheck' = unmodified
  /\ unmodified' = TRUE
  /\ UNCHANGED <<files, compiled, router, fileCache, orphans,
                 varsWatch, varsBuild, varsDetect, varsRoutes, varsExtract>>

\* a file-compile promise of the awaited pass fulfils
UnitDone(f) ==
  /\ pc = "running" /\ units[f] = "pending"
  /\ ~UnitThrows(f)
  /\ compiled' = [compiled EXCEPT ![f] = UnitOutput(f)]
  /\ fileCache' = [fileCache EXCEPT ![f] = UnitOutput(f)]
  /\ units' = [units EXCEPT ![f] = "done"]
  /\ UNCHANGED <<files, diskCache, cache, routes, changedRoutes, router, pc, outcome,
                 orphans, startCompiled, startRouter, unmodified, recheck,
                 varsWatch, varsBuild, varsDetect, varsRoutes, varsExtract>>

\* a file-compile promise rejects: Promise.all rejects and compileProject
\* throws at once; the promises still pending keep running on their own
UnitFail(f) ==
  /\ pc = "running" /\ units[f] = "pending"
  /\ UnitThrows(f)
  /\ orphans' = orphans \cup {g \in SrcFiles \ {f} : units[g] = "pending"}
  /\ units' = [g \in SrcFiles |-> "none"]
  /\ pc' = "idle"
  /\ outcome' = "failed"
  /\ cache' = EmptyCache
  /\ UNCHANGED <<files, diskCache, routes, changedRoutes, compiled, router,
                 fileCache, startCompiled, startRouter, unmodified, recheck,
                 varsWatch, varsBuild, varsDetect, varsRoutes, varsExtract>>

\* a promise of a pass that already threw settles
OrphanSettle(f) ==
  /\ f \in orphans
  /\ orphans' = orphans \ {f}
  /\ IF UnitThrows(f)
     THEN UNCHANGED <<compiled, fileCache>>
     ELSE /\ compiled' = [compiled EXCEPT ![f] = UnitOutput(f)]
          /\ fileCache' = [fileCache EXCEPT ![f] = UnitOutput(f)]
  /\ UNCHANGED <<files, diskCache, cache, routes, changedRoutes, router, pc, outcome,
                 units, startCompiled, startRouter, unmodified, recheck,
                 varsWatch, varsBuild, varsDetect, varsRoutes, varsExtract>>

\* router.js after step 3 of compileProject
RouterAfter(changed, rs, before) ==
  IF Len(changed) > 0 \/ ~before.exists THEN generateRouter(rs) ELSE before

\* every promise fulfilled: step 3 and the return
PassFinish ==
  /\ pc = "running"
  /\ \A f \in SrcFiles : units[f] # "pending"
  /\ router' = RouterAfter(changedRoutes, routes, router)
  /\ units' = [f \in SrcFiles |-> "none"]
  /\ pc' = "idle"
  /\ outcome' = "ok"
  /\ cache' = EmptyCache
  /\ UNCHANGED <<files, diskCache, routes, changedRoutes, compiled, fileCache,
                 orphans, startCompiled, startRouter, unmodified, recheck,
                 varsWatch, varsBuild, varsDetect, varsRoutes, varsExtract>>

Next ==
  \/ \E f \in SrcFiles, c \in Contents : WriteFile(f, c)
  \/ \E f \in SrcFiles : DeleteFile(f)
  \/ \E f \in SrcFiles : Chmod(f)
  \/ ResetCache
  \/ Restart
  \/ PassStart
  \/ \E f \in SrcFiles : UnitDone(f)
  \/ \E f \in SrcFiles : UnitFail(f)
  \/ \E f \in SrcFiles : OrphanSettle(f)
  \/ PassFinish

(***************************************************************************)
(* Claims about the dev compile pass (checked under Spec)                  *)
(***************************************************************************)
ChangedSet == Range(changedRoutes)

\* C1: after a compile pass that failed, with no modification since its
\* change check, every route that pass reported as changed is still reported
\* as changed by a change check on the persisted cache (the cache does not
\* hold the route's new hash).
C1_FailedPassLeavesRoutesChanged ==
  (outcome = "failed" /\ unmodified)
    => \A r \in ChangedSet : hasRouteChanged(r, loadCache)

\* C2: after every compile pass that succeeds, the route table of router.js
\* is the table of the route list that pass discovered.
C2_RouterMatchesDiscoveredRoutes ==
  outcome = "ok" => router = generateRouter(routes)

\* C3: a pass that succeeds leaves the router.js that the same pass would
\* leave had it started with an absent (empty) route cache.
C3_RouterSameAsWithColdCache ==
  outcome = "ok"
    => router = RouterAfter(getChangedRoutes(routes, EmptyCache).changed,
                            routes, startRouter)

\* C9: when a compile pass fails, the compiled output directory (compiled
\* files and router.js) is what it was when that pass began.
C9_FailedPassLeavesOutputUntouched ==
  [][(pc = "running" /\ outcome' = "failed")
       => (compiled' = startCompiled /\ router' = startRouter)]_vars

\* the result of calling getChangedRoutes once more on the RouteCache
\* instance of the pass that is being awaited
SameInstanceAgain == Range(getChangedRoutes(routes, cache).changed)

C24_UnitsSettledBeforePassEnds ==
  /\ [](pc = "idle" => orphans = {})
  /\ [][(pc = "running" /\ router' # router) => \A f \in SrcFiles : units[f] # "pending"]_vars

\* C28: whenever a file-compile unit serves the stored output of fileCache,
\* that output is what compiling the file's current content would produce
\* at that moment, the bertui/router import rewrite (which depends on
\* whether router.js exists) included.
C28_CachedOutputIsCurrent ==
  [][\A f \in SrcFiles :
       (pc = "running" /\ units[f] = "pending" /\ units'[f] = "done" /\ UnitCached(f))
         => /\ Readable(f)
            /\ compiled'[f] = Transpile(files[f].content, router.exists)]_vars

(***************************************************************************)
(* The change detector on its own: RouteCache constructed and called       *)
(* any number of times, with the cache file and its entries tampered with  *)
(* between calls (SpecDetect).                                             *)
(***************************************************************************)
\* What the cache file can hold besides a path -> hash object: text that
\* JSON.parse rejects (or a file readFileSync cannot read), and valid JSON
\* that is no object: null, an array, a number / string / boolean.
CorruptKinds == {"garbage", "null", "array", "scalar"}
CorruptCache(kind) == [state |-> kind, map |-> <<>>]

\* this.cache after the constructor: JSON.parse's value, {} when it throws
loadKind ==
  CASE diskCache.state \in {"absent", "garbage", "valid"} -> "object"
    [] OTHER -> diskCache.state

\* JSON.stringify(this.cache): own properties of an array that are no indices
\* are not written; null and scalars are written as they are
serialize(kind, c) == IF kind = "object" THEN saveCache(c) ELSE CorruptCache(kind)

\* hasRouteChanged throws a TypeError on the first readable route when
\* this.cache is null (property read) or a scalar (property write in strict
\* mode); an unreadable route returns before this.cache is touched
checkThrows(rs, kind) ==
  /\ kind \in {"null", "scalar"}
  /\ \E i \in 1..Len(rs) : getRouteHash(rs[i]) # NoHash

InitDetectIdle ==
  /\ instance = "none"
  /\ thrown = FALSE
  /\ calls = 0
  /\ loadedFrom = "absent"
  /\ removedFile = IndexPage
  /\ phase = 0
  /\ lastPhase = 0

\* the cache file is overwritten with something that is no mapping
TamperCache(kind) ==
  /\ diskCache # CorruptCache(kind)
  /\ diskCache' = CorruptCache(kind)
  /\ unmodified' = FALSE
  /\ ForgetPass
  /\ instance' = "none"
  /\ UNCHANGED <<files, cache, compiled, router, fileCache, pc, units, orphans,
                 thrown, calls, loadedFrom, removedFile, phase, lastPhase,
                 varsWatch, varsBuild, varsRoutes, varsExtract>>

\* the cache file is overwritten with some mapping (an older copy, say)
RestoreCache(c) ==
  /\ diskCache # saveCache(c)
  /\ diskCache' = saveCache(c)
  /\ unmodified' = FALSE
  /\ ForgetPass
  /\ instance' = "none"
  /\ UNCHANGED <<files, cache, compiled, router, fileCache, pc, units, orphans,
                 thrown, calls, loadedFrom, removedFile, phase, lastPhase,
                 varsWatch, varsBuild, varsRoutes, varsExtract>>

\* the entry of one route file is removed from the cache file; the live
\* instance, if any, loses it too
RemoveEntry(f) ==
  /\ diskCache.state = "valid" /\ diskCache.map[f] # NoHash
  /\ Exists(f) /\ IsRouteFile(f)
  /\ unmodified /\ phase # 1
  /\ diskCache' = [diskCache EXCEPT !.map[f] = NoHash]
  /\ cache' = [cache EXCEPT ![f] = NoHash]
  /\ removedFile' = f
  /\ phase' = 1
  /\ lastPhase' = 0
  /\ UNCHANGED <<files, routes, changedRoutes, compiled, router, fileCache, pc, outcome,
                 units, orphans, startCompiled, startRouter, unmodified, recheck,
                 instance, thrown, calls, loadedFrom, varsWatch, varsBuild, varsRoutes, varsExtract>>

\* new RouteCache(root)
NewRouteCache ==
  /\ instance' = loadKind
  /\ cache' = loadCache
  /\ loadedFrom' = diskCache.state
  /\ thrown' = FALSE
  /\ calls' = 0
  /\ UNCHANGED <<files, diskCache, routes, changedRoutes, compiled, router, fileCache,
                 pc, outcome, units, orphans, startCompiled, startRouter, unmodified,
                 recheck, removedFile, phase, lastPhase, varsWatch, varsBuild, varsRoutes, varsExtract>>

\* routeCache.getChangedRoutes(discoverRoutes(pagesDir)) on the live instance
DetectChanges ==
  /\ instance # "none"
  /\ routes' = discoverRoutes
  /\ IF checkThrows(discoverRoutes, instance)
     THEN /\ thrown' = TRUE
          /\ changedRoutes' = <<>>
          /\ UNCHANGED <<cache, diskCache>>
     ELSE LET res == getChangedRoutes(discoverRoutes, cache)
          IN /\ thrown' = FALSE
             /\ changedRoutes' = res.changed
             /\ cache' = res.cache
             /\ diskCache' = IF Len(res.changed) > 0
                             THEN serialize(instance, res.cache) ELSE diskCache
  /\ calls' = IF calls < 2 THEN calls + 1 ELSE 2
  /\ lastPhase' = IF unmodified THEN phase ELSE 0
  /\ phase' = IF unmodified /\ phase = 1 THEN 2 ELSE 0
  /\ recheck' = unmodified
  /\ unmodified' = TRUE
  /\ UNCHANGED <<files, compiled, router, fileCache, pc, outcome, units, orphans,
                 startCompiled, startRouter, instance, loadedFrom, removedFile,
                 varsWatch, varsBuild, varsRoutes, varsExtract>>

NextDetect ==
  \/ \E f \in SrcFiles, c \in Contents : WriteFile(f, c)
  \/ \E f \in SrcFiles : DeleteFile(f)
  \/ \E f \in SrcFiles : Chmod(f)
  \/ ResetCache
  \/ \E kind \in CorruptKinds : TamperCache(kind)
  \/ \E c \in CacheValues : RestoreCache(c)
  \/ \E f \in SrcFiles : RemoveEntry(f)
  \/ NewRouteCache
  \/ DetectChanges

TypeOKDetect ==
  /\ instance \in {"none", "object", "array", "null", "scalar"}
  /\ diskCache.state \in {"absent", "valid"} \cup CorruptKinds
  /\ phase \in 0..2 /\ lastPhase \in 0..2
  /\ thrown \in BOOLEAN /\ calls \in 0..2

(***************************************************************************)
(* Claims about the change detector (checked under SpecDetect)             *)
(***************************************************************************)
ChangedFiles == {r.file : r \in Range(changedRoutes)}
UnreadableRoutes == {r.file : r \in {x \in Range(routes) : getRouteHash(x) = NoHash}}

\* C11: after the cache entry of one route file is removed, with no file
\* modification, the first change check reports exactly that file and the
\* check after it reports no file.
C11_RemovedEntryReportedOnce ==
  unmodified =>
    /\ lastPhase = 1 => (~thrown /\ ChangedFiles = {removedFile})
    /\ lastPhase = 2 => (~thrown /\ ChangedFiles = {})

\* C11 as the code has it: the first check reports that file and the check
\* after it reports none, apart from the routes whose file cannot be read,
\* which every check reports.
C11_RemovedEntryReportedOnceIfReadable ==
  unmodified =>
    /\ lastPhase = 1 => (~thrown /\ ChangedFiles = {removedFile} \cup UnreadableRoutes)
    /\ lastPhase = 2 => (~thrown /\ ChangedFiles = UnreadableRoutes)

\* C11 witness: both route files readable, an entry was removed, two checks
\* ran since, the second on a new RouteCache, and it reported nothing
C11_Witness ==
  /\ unmodified /\ lastPhase = 2
  /\ Len(routes) = Cardinality(SrcFiles)
  /\ UnreadableRoutes = {}
  /\ changedRoutes = <<>>

\* C12: a RouteCache constructed over a cache file that is absent, unreadable
\* or no path -> hash mapping does not make getChangedRoutes throw, and its
\* first change check reports every route.
C12_BadCacheFileMeansAllChanged ==
  (instance # "none" /\ calls = 1 /\ loadedFrom # "valid")
    => (~thrown /\ Len(changedRoutes) = Len(routes))

(***************************************************************************)
(* Route discovery on its own, with paths as character sequences           *)
(* (SpecRoutes).  Both compilers scan pages/ the same way; only the        *)
(* production one sorts the list.                                          *)
(***************************************************************************)
\* strings of the file names and routes, one character per element
Slash == <<"/">>
IndexName == <<"i", "n", "d", "e", "x">>
\* the extensions of route files
RouteExts == {<<".", "j", "s", "x">>, <<".", "t", "s", "x">>, <<".", "j", "s">>, <<".", "t", "s">>}
SlashIndex == Slash \o IndexName

\* UTF-16 code units of the characters used; for these names localeCompare
\* orders the routes as the code units do
CharCode ==
  ("." :> 46) @@ ("/" :> 47) @@ ("[" :> 91) @@ ("]" :> 93) @@ ("a" :> 97) @@
  ("b" :> 98) @@ ("d" :> 100) @@ ("e" :> 101) @@ ("g" :> 103) @@ ("i" :> 105) @@
  ("j" :> 106) @@ ("l" :> 108) @@ ("n" :> 110) @@ ("o" :> 111) @@ ("r" :> 114) @@
  ("s" :> 115) @@
  ("t" :> 116) @@ ("u" :> 117) @@ ("x" :> 120)

\* the files a pages/ directory may hold: [dir, name], dir the directories
\* between pages/ and the file
PageFiles ==
  { [dir |-> <<>>, name |-> <<"i", "n", "d", "e", "x", ".", "j", "s", "x">>],
    [dir |-> <<<<"b", "l", "o", "g">>>>, name |-> <<"i", "n", "d", "e", "x", ".", "j", "s", "x">>],
    [dir |-> <<<<"i", "n", "d", "e", "x", "e", "s">>>>, name |-> <<"i", "n", "d", "e", "x", ".", "j", "s", "x">>],
    [dir |-> <<<<"u", "s", "e", "r", "s">>, <<"[", "i", "d", "]">>>>,
     name |-> <<"i", "n", "d", "e", "x", ".", "j", "s", "x">>],
    [dir |-> <<>>, name |-> <<"[", "i", "d", "]", ".", "j", "s", "x">>],
    [dir |-> <<>>, name |-> <<"a", "b", "o", "u", "t", ".", "j", "s", "x">>],
    [dir |-> <<>>, name |-> <<"[", "x", ".", "j", "s", "x">>],
    [dir |-> <<>>, name |-> <<"a", "b", "o", "u", "t", ".", "c", "s", "s">>] }

MaxListing == 3
Listings ==
  {l \in UNION {[1..n -> PageFiles] : n \in 0..MaxListing} :
     \A i, j \in 1..Len(l) : i # j => l[i] # l[j]}

\* String.prototype.includes / indexOf for a pattern: first position or 0
IndexOf(str, pat) ==
  LET hits == {i \in 1..(Len(str) - Len(pat) + 1) : SubSeq(str, i, i + Len(pat) - 1) = pat}
  IN IF hits = {} THEN 0 ELSE CHOOSE i \in hits : \A j \in hits : i <= j

\* str.replace(pat, rep) with a string pattern: the first occurrence only
ReplaceFirst(str, pat, rep) ==
  LET i == IndexOf(str, pat)
  IN IF i = 0 THEN str
     ELSE SubSeq(str, 1, i - 1) \o rep \o SubSeq(str, i + Len(pat), Len(str))

\* path.extname: from the last "." of the name, "" if there is none or the
\* name starts with its only "."
extname(name) ==
  LET dots == {i \in 1..Len(name) : name[i] = "."}
  IN IF dots = {} THEN <<>>
     ELSE LET k == CHOOSE i \in dots : \A j \in dots : j <= i
          IN IF k = 1 THEN <<>> ELSE SubSeq(name, k, Len(name))

\* path.join(basePath, entry.name)
join(basePath, name) == IF basePath = <<>> THEN name ELSE basePath \o Slash \o name

RECURSIVE relativePathOf(_, _)
relativePathOf(dir, name) ==
  IF dir = <<>> THEN name
  ELSE join(Head(dir), relativePathOf(Tail(dir), name))

\* faulty variant: a file name with "[" alone counts as dynamic
routeOfEntryBracketOnly(entry) ==
  LET ext == extname(entry.name)
      relativePath == relativePathOf(entry.dir, entry.name)
      fileName == ReplaceFirst(entry.name, ext, <<>>)
      route0 == Slash \o ReplaceFirst(relativePath, ext, <<>>)
      collapsed == ReplaceFirst(route0, SlashIndex, <<>>)
      route == IF fileName = IndexName
               THEN (IF collapsed = <<>> THEN Slash ELSE collapsed)
               ELSE route0
      isDynamic == IndexOf(fileName, <<"[">>) > 0
  IN [route |-> IF route = <<>> THEN Slash ELSE route,
      file |-> relativePath,
      path |-> entry,
      type |-> IF isDynamic THEN "dynamic" ELSE "static"]

\* the body of scanDirectory for one file entry
routeOfEntry(entry) ==
  LET ext == extname(entry.name)
      relativePath == relativePathOf(entry.dir, entry.name)
      fileName == ReplaceFirst(entry.name, ext, <<>>)
      route0 == Slash \o ReplaceFirst(relativePath, ext, <<>>)
      collapsed == ReplaceFirst(route0, SlashIndex, <<>>)
      route == IF fileName = IndexName
               THEN (IF collapsed = <<>> THEN Slash ELSE collapsed)
               ELSE route0
      isDynamic == IndexOf(fileName, <<"[">>) > 0 /\ IndexOf(fileName, <<"]">>) > 0
  IN [route |-> IF route = <<>> THEN Slash ELSE route,
      file |-> relativePath,
      path |-> entry,
      type |-> IF isDynamic THEN "dynamic" ELSE "static"]

\* the dev compiler's discoverRoutes: the scan order, no sort
scanRoutes(l) ==
  LET isRoute(entry) == extname(entry.name) \in RouteExts
      kept == SelectSeq(l, isRoute)
  IN [i \in 1..Len(kept) |-> routeOfEntry(kept[i])]

\* a.localeCompare(b) < 0, = 0, > 0 as -1, 0, 1
RECURSIVE localeCompare(_, _)
localeCompare(a, b) ==
  IF a = <<>> /\ b = <<>> THEN 0
  ELSE IF a = <<>> THEN -1
  ELSE IF b = <<>> THEN 1
  ELSE IF CharCode[Head(a)] < CharCode[Head(b)] THEN -1
  ELSE IF CharCode[Head(a)] > CharCode[Head(b)] THEN 1
  ELSE localeCompare(Tail(a), Tail(b))

\* the comparator passed to routes.sort
compareRoutes(a, b) ==
  IF a.type = b.type THEN localeCompare(a.route, b.route)
  ELSE IF a.type = "static" THEN -1 ELSE 1

\* Array.prototype.sort (stable): each element goes after the ones not above it
RECURSIVE insertSorted(_, _)
insertSorted(r, sorted) ==
  IF sorted = <<>> THEN <<r>>
  ELSE IF compareRoutes(r, Head(sorted)) < 0 THEN <<r>> \o sorted
  ELSE <<Head(sorted)>> \o insertSorted(r, Tail(sorted))

RECURSIVE sortRoutes(_)
sortRoutes(rs) ==
  IF rs = <<>> THEN <<>>
  ELSE insertSorted(rs[Len(rs)], sortRoutes(SubSeq(rs, 1, Len(rs) - 1)))

\* UICompiler.discoverRoutes: the same scan, then the sort
scanAndSortRoutes(l) == sortRoutes(scanRoutes(l))

InitRoutesIdle ==
  /\ listing = <<>>
  /\ devRoutes = <<>>
  /\ prodRoutes = <<>>
  /\ scanned = {}

InitListing ==
  /\ listing \in Listings
  /\ devRoutes = <<>>
  /\ prodRoutes = <<>>
  /\ scanned = {}

DiscoverDev ==
  /\ "dev" \notin scanned
  /\ devRoutes' = scanRoutes(listing)
  /\ scanned' = scanned \cup {"dev"}
  /\ UNCHANGED <<listing, prodRoutes, varsCompile, varsWatch, varsBuild, varsDetect, varsExtract>>

DiscoverProd ==
  /\ "prod" \notin scanned
  /\ prodRoutes' = scanAndSortRoutes(listing)
  /\ scanned' = scanned \cup {"prod"}
  /\ UNCHANGED <<listing, devRoutes, varsCompile, varsWatch, varsBuild, varsDetect, varsExtract>>

NextRoutes ==
  \/ DiscoverDev
  \/ DiscoverProd

(***************************************************************************)
(* Claims about route discovery (checked under SpecRoutes)                 *)
(***************************************************************************)
\* static routes before dynamic ones, each group ascending by route path
OrderedRoutes(rs) ==
  \A i, j \in 1..Len(rs) :
    i < j => /\ ~(rs[i].type = "dynamic" /\ rs[j].type = "static")
             /\ rs[i].type = rs[j].type => localeCompare(rs[i].route, rs[j].route) <= 0

AllRoutes == Range(devRoutes) \cup Range(prodRoutes)

\* the route path of the directory a file is in: "/" and its directory names
RECURSIVE ParentRoute(_)
ParentRoute(dir) ==
  IF dir = <<>> THEN <<>> ELSE Slash \o Head(dir) \o ParentRoute(Tail(dir))

\* C13: the route list of the production compiler and of the dev compiler
\* has every static route before every dynamic one and each group in
\* ascending order of route path.
C13_RouteListsOrdered ==
  OrderedRoutes(devRoutes) /\ OrderedRoutes(prodRoutes)

\* C14: the route path of a file whose base name is index is the path of
\* its parent directory, "/" for the pages root.
C14_IndexRouteIsParentPath ==
  \A r \in AllRoutes :
    ReplaceFirst(r.path.name, extname(r.path.name), <<>>) = IndexName
      => r.route = (IF r.path.dir = <<>> THEN Slash ELSE ParentRoute(r.path.dir))

\* C15: a route is dynamic exactly if its file name contains both "[" and
\* "]", and static otherwise.
C15_DynamicIffBothBrackets ==
  \A r \in AllRoutes :
    /\ r.type \in {"static", "dynamic"}
    /\ r.type = "dynamic" <=>
         ((\E i \in 1..Len(r.path.name) : r.path.name[i] = "[")
          /\ (\E i \in 1..Len(r.path.name) : r.path.name[i] = "]"))

\* a route path with a segment in brackets: "[" and a later "]" with no "/"
\* between them
HasBracketedSegment(route) ==
  \E i, j \in 1..Len(route) :
    /\ i < j
    /\ route[i] = "["
    /\ route[j] = "]"
    /\ \A k \in i..j : route[k] # "/"

\* C30: every route whose path has a bracketed segment, a segment that comes
\* from a directory name included, has type dynamic.
C30_BracketedRouteIsDynamic ==
  \A r \in AllRoutes : HasBracketedSegment(r.route) => r.type = "dynamic"

\* C15 witness: both scans ran over a file with both brackets and a file with
\* "[" alone
C15_Witness ==
  /\ scanned = {"dev", "prod"}
  /\ \E r \in Range(prodRoutes) : r.type = "dynamic"
  /\ \E r \in Range(devRoutes) :
       /\ r.type = "static"
       /\ \E i \in 1..Len(r.path.name) : r.path.name[i] = "["

(***************************************************************************)
(* The dev file watcher (setupFileWatcher)                                 *)
(***************************************************************************)
DebounceDelay == 150
ReloadDelay == 100

\* bounds of the watcher model
MaxEvents == 3
MaxConfigEvents == 1

Clients == {"c1"}
watchedExtensions == {".js", ".jsx", ".ts", ".tsx", ".css"}
EventExtensions == {".jsx", ".css", ".md"}

InitWatchIdle ==
  /\ isRecompiling = FALSE
  /\ recompileTimeout = 0
  /\ timers = {}
  /\ reloadTimers = {}
  /\ clients = {}
  /\ dead = {}
  /\ sent = <<>>
  /\ running = {}
  /\ results = <<>>
  /\ nEvents = 0
  /\ sinceEvent = DebounceDelay
  /\ burstRebuilds = 0
  /\ startGap = 0
  /\ dirty = FALSE
  /\ burstEvents = 0
  /\ drops = 0

\* notifyClients: send to every client of the Set; a send that throws removes
\* the client.  rebuild is the rebuild the message belongs to (0: none).
notifyClients(type, rebuild) ==
  /\ clients' = clients \ dead
  /\ dead' = {}
  /\ sent' = Append(sent, [type |-> type, rebuild |-> rebuild])

\* websocket.open
ClientOpen(c) ==
  /\ c \notin clients
  /\ clients' = clients \cup {c}
  /\ UNCHANGED <<isRecompiling, recompileTimeout, timers, reloadTimers, dead, sent,
                 running, results, nEvents, sinceEvent, burstRebuilds, startGap, dirty, burstEvents, drops,
                 varsCompile, varsBuild, varsDetect, varsRoutes, varsExtract>>

\* the socket of a connected client goes away
SocketLost(c) ==
  /\ c \in clients \ dead
  /\ dead' = dead \cup {c}
  /\ UNCHANGED <<isRecompiling, recompileTimeout, timers, reloadTimers, clients, sent,
                 running, results, nEvents, sinceEvent, burstRebuilds, startGap, dirty, burstEvents, drops,
                 varsCompile, varsBuild, varsDetect, varsRoutes, varsExtract>>

\* websocket.close
ClientClose(c) ==
  /\ c \in dead
  /\ clients' = clients \ {c}
  /\ dead' = dead \ {c}
  /\ UNCHANGED <<isRecompiling, recompileTimeout, timers, reloadTimers, sent,
                 running, results, nEvents, sinceEvent, burstRebuilds, startGap, dirty, burstEvents, drops,
                 varsCompile, varsBuild, varsDetect, varsRoutes, varsExtract>>

\* time passes: 50 ms
Tick ==
  /\ \/ sinceEvent < DebounceDelay
     \/ \E t \in timers \cup reloadTimers : t.left > 0
  /\ timers' = {[t EXCEPT !.left = IF t.left > 50 THEN t.left - 50 ELSE 0] : t \in timers}
  /\ reloadTimers' =
       {[t EXCEPT !.left = IF t.left > 50 THEN t.left - 50 ELSE 0] : t \in reloadTimers}
  /\ sinceEvent' = IF sinceEvent + 50 < DebounceDelay THEN sinceEvent + 50
                   ELSE DebounceDelay
  /\ UNCHANGED <<isRecompiling, recompileTimeout, clients, dead, sent, running, results,
                 nEvents, burstRebuilds, startGap, dirty, burstEvents, drops, varsCompile, varsBuild, varsDetect, varsRoutes, varsExtract>>

\* clearTimeout(recompileTimeout)
clearTimeout(handle) == {t \in timers : t.id # handle}

\* faulty variant: the pending debounce timer is not cleared
WatchEventNoClear(ext) ==
  /\ nEvents < MaxEvents
  /\ IF ext \notin watchedExtensions
     THEN UNCHANGED <<recompileTimeout, timers, nEvents, sinceEvent, burstRebuilds,
                     dirty, burstEvents, drops>>
     ELSE /\ timers' = timers \cup {[id |-> nEvents + 1, left |-> DebounceDelay]}
          /\ recompileTimeout' = nEvents + 1
          /\ nEvents' = nEvents + 1
          /\ burstRebuilds' = IF sinceEvent >= DebounceDelay THEN 0 ELSE burstRebuilds
          /\ burstEvents' = IF sinceEvent >= DebounceDelay THEN 1 ELSE burstEvents + 1
          /\ sinceEvent' = 0
          /\ dirty' = TRUE
  /\ UNCHANGED <<isRecompiling, reloadTimers, clients, dead, sent, running, results,
                 startGap, drops, varsCompile, varsBuild, varsDetect, varsRoutes, varsExtract>>

\* the fs.watch callback on src/: a change event for a file with extension ext
WatchEvent(ext) ==
  /\ nEvents < MaxEvents
  /\ IF ext \notin watchedExtensions
     THEN UNCHANGED <<recompileTimeout, timers, nEvents, sinceEvent, burstRebuilds,
                     dirty, burstEvents, drops>>
     ELSE /\ timers' = clearTimeout(recompileTimeout)
                         \cup {[id |-> nEvents + 1, left |-> DebounceDelay]}
          /\ recompileTimeout' = nEvents + 1
          /\ nEvents' = nEvents + 1
          /\ burstRebuilds' = IF sinceEvent >= DebounceDelay THEN 0 ELSE burstRebuilds
          /\ burstEvents' = IF sinceEvent >= DebounceDelay THEN 1 ELSE burstEvents + 1
          /\ sinceEvent' = 0
          /\ dirty' = TRUE
  /\ UNCHANGED <<isRecompiling, reloadTimers, clients, dead, sent, running, results,
                 startGap, drops, varsCompile, varsBuild, varsDetect, varsRoutes, varsExtract>>

\* the debounce callback up to its await: a new rebuild starts
StartRebuild ==
  LET id == Len(results) + 1
  IN /\ isRecompiling' = TRUE
     /\ notifyClients("recompiling", id)
     /\ running' = running \cup {id}
     /\ results' = Append(results, "running")
     /\ burstRebuilds' = burstRebuilds + 1
     /\ startGap' = sinceEvent
     /\ dirty' = FALSE
     /\ UNCHANGED <<reloadTimers, drops>>

\* faulty variant: the callback does not look at the in-flight flag
TimerFireNoGuard(t) ==
  /\ t \in timers /\ t.left = 0
  /\ timers' = timers \ {t}
  /\ StartRebuild
  /\ UNCHANGED <<recompileTimeout, nEvents, sinceEvent, burstEvents,
                 varsCompile, varsBuild, varsDetect, varsRoutes, varsExtract>>

\* a debounce timer fires
TimerFire(t) ==
  /\ t \in timers /\ t.left = 0
  /\ timers' = timers \ {t}
  /\ IF isRecompiling
     THEN /\ drops' = drops + 1
          /\ UNCHANGED <<isRecompiling, reloadTimers, clients, dead, sent, running,
                         results, burstRebuilds, startGap, dirty>>
     ELSE StartRebuild
  /\ UNCHANGED <<recompileTimeout, nEvents, sinceEvent, burstEvents,
                 varsCompile, varsBuild, varsDetect, varsRoutes, varsExtract>>

\* faulty variant: reload is broadcast at once, before compiled
RebuildSucceedReloadFirst(id) ==
  /\ id \in running
  /\ clients' = clients \ dead
  /\ dead' = {}
  /\ sent' = sent \o <<[type |-> "reload", rebuild |-> id],
                       [type |-> "compiled", rebuild |-> id]>>
  /\ isRecompiling' = FALSE
  /\ running' = running \ {id}
  /\ results' = [results EXCEPT ![id] = "ok"]
  /\ UNCHANGED <<recompileTimeout, timers, reloadTimers, nEvents, sinceEvent,
                 burstRebuilds, startGap, dirty, burstEvents, drops, varsCompile, varsBuild, varsDetect, varsRoutes, varsExtract>>

\* compileProject resolved: the rest of the try block and the finally block
RebuildSucceed(id) ==
  /\ id \in running
  /\ notifyClients("compiled", id)
  /\ reloadTimers' = reloadTimers \cup {[rebuild |-> id, left |-> ReloadDelay]}
  /\ isRecompiling' = FALSE
  /\ running' = running \ {id}
  /\ results' = [results EXCEPT ![id] = "ok"]
  /\ UNCHANGED <<recompileTimeout, timers, nEvents, sinceEvent, burstRebuilds, startGap,
                 dirty, burstEvents, drops, varsCompile, varsBuild, varsDetect, varsRoutes, varsExtract>>

\* compileProject rejected: the catch block and the finally block
RebuildFail(id) ==
  /\ id \in running
  /\ isRecompiling' = FALSE
  /\ running' = running \ {id}
  /\ results' = [results EXCEPT ![id] = "failed"]
  /\ UNCHANGED <<recompileTimeout, timers, reloadTimers, clients, dead, sent, nEvents,
                 sinceEvent, burstRebuilds, startGap, dirty, burstEvents, drops, varsCompile, varsBuild, varsDetect, varsRoutes, varsExtract>>

\* the delayed reload of a rebuild that succeeded
ReloadFire(t) ==
  /\ t \in reloadTimers /\ t.left = 0
  /\ reloadTimers' = reloadTimers \ {t}
  /\ notifyClients("reload", t.rebuild)
  /\ UNCHANGED <<isRecompiling, recompileTimeout, timers, running, results, nEvents,
                 sinceEvent, burstRebuilds, startGap, dirty, burstEvents, drops, varsCompile, varsBuild, varsDetect, varsRoutes, varsExtract>>

ConfigReloads == Cardinality({i \in 1..Len(sent) : sent[i].rebuild = 0})

\* the fs.watch callback on ernest.bundler.js
ConfigEvent(eventType) ==
  /\ ConfigReloads < MaxConfigEvents
  /\ IF eventType = "change"
     THEN notifyClients("reload", 0)
     ELSE UNCHANGED <<clients, dead, sent>>
  /\ UNCHANGED <<isRecompiling, recompileTimeout, timers, reloadTimers, running, results,
                 nEvents, sinceEvent, burstRebuilds, startGap, dirty, burstEvents, drops,
                 varsCompile, varsBuild, varsDetect, varsRoutes, varsExtract>>

NextWatch ==
  \/ \E c \in Clients : ClientOpen(c)
  \/ \E c \in Clients : SocketLost(c)
  \/ \E c \in Clients : ClientClose(c)
  \/ Tick
  \/ \E ext \in EventExtensions : WatchEvent(ext)
  \/ \E t \in timers : TimerFire(t)
  \/ \E id \in running : RebuildSucceed(id)
  \/ \E id \in running : RebuildFail(id)
  \/ \E t \in reloadTimers : ReloadFire(t)
  \/ \E e \in {"change", "rename"} : ConfigEvent(e)

TypeOKWatch ==
  /\ isRecompiling \in BOOLEAN
  /\ recompileTimeout \in 0..MaxEvents
  /\ \A t \in timers : t.id \in 1..MaxEvents /\ t.left \in 0..DebounceDelay
  /\ \A t \in reloadTimers : t.left \in 0..ReloadDelay
  /\ dead \subseteq clients /\ clients \subseteq Clients
  /\ running \subseteq 1..Len(results)
  /\ sinceEvent \in 0..DebounceDelay

(***************************************************************************)
(* Claims about the dev watcher (checked under SpecWatch)                  *)
(***************************************************************************)
TimerIds(ts) == {t.id : t \in ts}

\* a step in which a debounce timer fires: a timer goes and no event came
DebounceFired == nEvents' = nEvents /\ TimerIds(timers') # TimerIds(timers)

\* the types of the messages broadcast for rebuild r, in the order sent
MsgsOf(r) ==
  LET of(e) == e.rebuild = r
      sel == SelectSeq(sent, of)
  IN [i \in 1..Len(sel) |-> sel[i].type]

\* C5: every change event is followed by the start of a rebuild: when no
\* debounce timer is pending and no rebuild is running, no change event has
\* arrived since the latest rebuild started.
C5_NoChangeLeftBehind ==
  (timers = {} /\ running = {}) => ~dirty

\* C6: isRecompiling is true exactly while a rebuild callback is between its
\* start and its finally block; at most one is; a debounce timer that fires
\* while the flag is set starts no rebuild and queues nothing; one that fires
\* while it is clear (also after a failed rebuild) starts a rebuild.
C6_InFlightFlag ==
  /\ [](isRecompiling <=> running # {})
  /\ [](Cardinality(running) <= 1)
  /\ [][(DebounceFired /\ isRecompiling)
          => /\ running' = running /\ results' = results /\ sent' = sent
             /\ reloadTimers' = reloadTimers /\ timers' \subseteq timers]_vars
  /\ [][(DebounceFired /\ ~isRecompiling)
          => /\ Len(results') = Len(results) + 1
             /\ running' = {Len(results')} /\ isRecompiling']_vars

\* C6 witness: a debounce timer was dropped, a rebuild failed, and a later
\* rebuild is running
C6_Witness ==
  /\ drops > 0
  /\ \E r \in 1..Len(results) : results[r] = "failed" /\ \E q \in running : q > r

\* C7: the events of one burst start at most one rebuild, and a rebuild
\* starts no sooner than the debounce delay after the latest event.
C7_DebounceBurst ==
  /\ burstRebuilds <= 1
  /\ Len(results) > 0 => startGap >= DebounceDelay

\* C7 witness: a burst of several events has started its one rebuild
C7_Witness == burstEvents >= 2 /\ burstRebuilds = 1

\* C8: the messages of a rebuild are recompiling, then compiled, then reload
\* for one that succeeded (reload once its delay has passed), and recompiling
\* alone for one that failed or is still running.
C8_NotificationOrder ==
  \A r \in 1..Len(results) :
    IF results[r] = "ok"
    THEN IF \E t \in reloadTimers : t.rebuild = r
         THEN MsgsOf(r) = <<"recompiling", "compiled">>
         ELSE MsgsOf(r) = <<"recompiling", "compiled", "reload">>
    ELSE MsgsOf(r) = <<"recompiling">>

\* C8 witness: a failed rebuild and a succeeded one whose reload was sent
C8_Witness ==
  /\ \E r \in 1..Len(results) : results[r] = "failed"
  /\ \E r \in 1..Len(results) :
       results[r] = "ok" /\ MsgsOf(r) = <<"recompiling", "compiled", "reload">>

\* C27: no reload message is broadcast while a rebuild is in flight, be it
\* the delayed reload of a rebuild that has finished or the reload of a
\* config-file change.
C27_NoReloadDuringRebuild ==
  [][(Len(sent') = Len(sent) + 1 /\ sent'[Len(sent')].type = "reload")
       => (~isRecompiling /\ running = {})]_vars

(***************************************************************************)
(* The production build (buildUI): Server Islands and generated documents  *)
(***************************************************************************)
\* Source text is a sequence of fragments; String.includes is membership.
Marker == "export const render = \"server\""
HookCall == "useState("
HookCallSpaced == "useEffect ("
HookImport == "import { useState }"
RouterImport == "from 'bertui/router'"
HandlerAttr == "onClick="
BrowserApi == "window."
ReturnOpen == "return ("
ReturnClose == ");}"
Markup == "<p>hi</p>"
Fragments == {Marker, HookCall, HookCallSpaced, HookImport, RouterImport, HandlerAttr,
              BrowserApi, ReturnOpen, ReturnClose, Markup}

\* hookPatterns, in the order the loop tries them, and the call each matches
hookPatterns == <<"useState", "useEffect">>
HookCallOf == ("useState" :> HookCall) @@ ("useEffect" :> HookCallSpaced)

\* A source is some of the fragments that may stand before the component's
\* return, in this order, followed by a body.
HeaderOrder == <<Marker, HookImport, RouterImport, HookCall, HookCallSpaced, BrowserApi>>
Bodies ==
  { <<>>,
    <<ReturnOpen, Markup>>,
    <<ReturnOpen, ReturnClose>>,
    <<ReturnOpen, Markup, ReturnClose>>,
    <<ReturnOpen, HandlerAttr, ReturnClose>>,
    <<ReturnOpen, Markup, HandlerAttr, ReturnClose>>,
    <<ReturnOpen, Markup, ReturnClose, ReturnOpen, HandlerAttr, ReturnClose>>,
    <<ReturnClose, ReturnOpen, Markup, ReturnClose>> }
Sources ==
  {LET in(x) == x \in h IN SelectSeq(HeaderOrder, in) \o b :
     h \in SUBSET Range(HeaderOrder), b \in Bodies}

ClientPage == <<ReturnOpen, Markup, ReturnClose>>
IslandPage == <<Marker, ReturnOpen, Markup, ReturnClose>>

Includes(sourceCode, needle) == \E i \in 1..Len(sourceCode) : sourceCode[i] = needle

\* extractStaticHTML returns null or a string
Null == [isNull |-> TRUE, html |-> <<>>, log |-> "none", hook |-> "none"]

\* faulty variant: with no match the whole source is taken as the markup
returnMatchOrSource(sourceCode) ==
  LET opens == {i \in 1..Len(sourceCode) :
                  /\ sourceCode[i] = ReturnOpen
                  /\ \E j \in (i + 1)..Len(sourceCode) : sourceCode[j] = ReturnClose}
  IN IF opens = {} THEN [Null EXCEPT !.isNull = FALSE, !.html = sourceCode]
     ELSE LET i == CHOOSE x \in opens : \A y \in opens : x <= y
              j == CHOOSE x \in (i + 1)..Len(sourceCode) :
                     /\ sourceCode[x] = ReturnClose
                     /\ \A y \in (i + 1)..(x - 1) : sourceCode[y] # ReturnClose
          IN [isNull |-> FALSE, html |-> SubSeq(sourceCode, i + 1, j - 1), log |-> "none",
              hook |-> "none"]

\* sourceCode.match(/return\s*\(([\s\S]*?)\);?\s*}/): the first "return (" that
\* has a closing ");}" after it, up to the nearest such closing
returnMatch(sourceCode) ==
  LET opens == {i \in 1..Len(sourceCode) :
                  /\ sourceCode[i] = ReturnOpen
                  /\ \E j \in (i + 1)..Len(sourceCode) : sourceCode[j] = ReturnClose}
  IN IF opens = {} THEN Null
     ELSE LET i == CHOOSE x \in opens : \A y \in opens : x <= y
              j == CHOOSE x \in (i + 1)..Len(sourceCode) :
                     /\ sourceCode[x] = ReturnClose
                     /\ \A y \in (i + 1)..(x - 1) : sourceCode[y] # ReturnClose
          IN [isNull |-> FALSE, html |-> SubSeq(sourceCode, i + 1, j - 1), log |-> "none",
              hook |-> "none"]

\* the hook patterns that match the source, as positions in hookPatterns
hooksFound(sourceCode) ==
  {k \in 1..Len(hookPatterns) : Includes(sourceCode, HookCallOf[hookPatterns[k]])}

\* faulty variant: the hook loop is skipped
extractStaticHTMLNoHookCheck(sourceCode) ==
  IF ~Includes(sourceCode, Marker) THEN Null
  ELSE IF Includes(sourceCode, RouterImport) THEN [Null EXCEPT !.log = "router"]
  ELSE IF returnMatch(sourceCode).isNull THEN [Null EXCEPT !.log = "noJSX"]
  ELSE returnMatch(sourceCode)

extractStaticHTML(sourceCode) ==
  IF ~Includes(sourceCode, Marker) THEN Null
  ELSE IF hooksFound(sourceCode) # {}
       THEN LET k == CHOOSE x \in hooksFound(sourceCode) :
                       \A y \in hooksFound(sourceCode) : x <= y
            IN [Null EXCEPT !.log = "hooks", !.hook = hookPatterns[k]]
  ELSE IF Includes(sourceCode, RouterImport) THEN [Null EXCEPT !.log = "router"]
  ELSE IF returnMatch(sourceCode).isNull THEN [Null EXCEPT !.log = "noJSX"]
  ELSE returnMatch(sourceCode)

\* the errors validateServerIsland returns (no caller in the repository)
validateServerIsland(sourceCode) ==
  {f \in {HandlerAttr, BrowserApi} : Includes(sourceCode, f)}

\* UICompiler.discoverRoutes: as the dev one, then static routes first
UICompiler_discoverRoutes ==
  LET all == SeqMap(RouteOf, SelectSeq(ReadDir, IsRouteFile))
      static(r) == r.type = "static"
      dynamic(r) == r.type = "dynamic"
  IN SelectSeq(all, static) \o SelectSeq(all, dynamic)

\* faulty variant: the root container is always written empty
generateHTMLTemplateNoStatic(route, staticHTML, isServerIsland) ==
  [route |-> route.route, island |-> isServerIsland, root |-> <<>>, script |-> bundlePath]

\* `<div id="root">${staticHTML || ''}</div>` and the island comment
generateHTMLTemplate(route, staticHTML, isServerIsland) ==
  [route |-> route.route, island |-> isServerIsland,
   root |-> IF staticHTML.isNull THEN <<>> ELSE staticHTML.html,
   script |-> bundlePath]

\* the steps of buildUI inside its try block, in the order they run
StageOrder == <<"compile", "css", "router", "entry", "bundle", "html", "sitemap">>
StageIndex(s) == CHOOSE i \in 1..Len(StageOrder) : StageOrder[i] = s

InitBuildIdle ==
  /\ sources = [f \in SrcFiles |-> <<>>]
  /\ stage = "idle"
  /\ buildRoutes = <<>>
  /\ serverIslands = <<>>
  /\ docs = <<>>
  /\ buildLog = <<>>
  /\ bundlePath = "none"
  /\ config = [serverIslands |-> TRUE]
  /\ pagesDir = TRUE
  /\ buildDir = FALSE
  /\ exitCode = "running"
  /\ failedStage = "none"
  /\ ran = {}
  /\ processed = 0

InitBuildSources ==
  /\ sources \in [SrcFiles -> Sources]
  /\ sources[IdPage] \in {ClientPage, IslandPage}
  /\ stage = "idle"
  /\ buildRoutes = <<>>
  /\ serverIslands = <<>>
  /\ docs = <<>>
  /\ buildLog = <<>>
  /\ bundlePath = "none"
  /\ config \in [serverIslands : BOOLEAN]
  /\ pagesDir \in BOOLEAN
  /\ buildDir \in BOOLEAN
  /\ exitCode = "running"
  /\ failedStage = "none"
  /\ ran = {}
  /\ processed = 0

\* buildUI up to the try block: both directories are removed and made again
BuildStart ==
  /\ stage = "idle"
  /\ stage' = "compile"
  /\ docs' = <<>>
  /\ buildDir' = TRUE
  /\ UNCHANGED <<sources, buildRoutes, serverIslands, buildLog, bundlePath, config,
                 pagesDir, exitCode, failedStage, ran, processed,
                 varsCompile, varsWatch, varsDetect, varsRoutes, varsExtract>>

\* the catch block without the removal of the build directory
buildFailedNoCleanup ==
  /\ stage' = "exited"
  /\ failedStage' = stage
  /\ ran' = ran \cup {stage}
  /\ UNCHANGED buildDir
  /\ exitCode' = "1"

\* the catch block of buildUI: the step that threw is the last one to run,
\* .ernestbuild is removed, process.exit(1)
buildFailed ==
  /\ stage' = "exited"
  /\ failedStage' = stage
  /\ ran' = ran \cup {stage}
  /\ buildDir' = FALSE
  /\ exitCode' = "1"

\* a step of buildUI returned: the next one starts
stepDone(next) ==
  /\ stage' = next
  /\ ran' = ran \cup {stage}
  /\ UNCHANGED <<buildDir, exitCode, failedStage>>

\* compileForBuild: it throws (src/ is missing or a file does not transpile),
\* or returns the routes of pages/ ([] when pages/ does not exist) and the
\* ones whose source has the marker
compileForBuild(how) ==
  /\ stage = "compile"
  /\ IF how = "throws"
     THEN /\ buildFailed
          /\ UNCHANGED <<buildRoutes, serverIslands>>
     ELSE LET found == IF pagesDir THEN UICompiler_discoverRoutes ELSE <<>>
              isServerIsland(r) == Includes(sources[r.file], Marker)
          IN /\ buildRoutes' = found
             /\ serverIslands' = SelectSeq(found, isServerIsland)
             /\ stepDone("css")
  /\ UNCHANGED <<sources, docs, buildLog, bundlePath, config, pagesDir, processed,
                 varsCompile, varsWatch, varsDetect, varsRoutes, varsExtract>>

\* the steps between compileForBuild and the bundler: buildCSS, generateRouter
\* (only with at least one route) and generateMainEntry
buildCSS(how) ==
  /\ stage = "css"
  /\ IF how = "throws" THEN buildFailed ELSE stepDone("router")
  /\ UNCHANGED <<sources, buildRoutes, serverIslands, docs, buildLog, bundlePath, config,
                 pagesDir, processed,
                 varsCompile, varsWatch, varsDetect, varsRoutes, varsExtract>>

generateBuildRouter(how) ==
  /\ stage = "router"
  /\ IF buildRoutes = <<>>
     THEN /\ stage' = "entry"
          /\ UNCHANGED <<ran, buildDir, exitCode, failedStage>>
     ELSE IF how = "throws" THEN buildFailed ELSE stepDone("entry")
  /\ UNCHANGED <<sources, buildRoutes, serverIslands, docs, buildLog, bundlePath, config,
                 pagesDir, processed,
                 varsCompile, varsWatch, varsDetect, varsRoutes, varsExtract>>

generateMainEntry(how) ==
  /\ stage = "entry"
  /\ IF how = "throws" THEN buildFailed ELSE stepDone("bundle")
  /\ UNCHANGED <<sources, buildRoutes, serverIslands, docs, buildLog, bundlePath, config,
                 pagesDir, processed,
                 varsCompile, varsWatch, varsDetect, varsRoutes, varsExtract>>

\* names the bundler may give the main entry point (they carry a content hash)
BundleNames == {"assets/main-1a.js", "assets/main-2b.js"}

\* bundleJavaScript: it throws, or it returns with or without a main entry
\* point (without one generateHTML returns at once and writes nothing)
bundleJavaScript(result) ==
  /\ stage = "bundle"
  /\ IF result = "throws" THEN buildFailed ELSE stepDone("html")
  /\ bundlePath' = IF result \in BundleNames THEN result ELSE "none"
  /\ UNCHANGED <<sources, buildRoutes, serverIslands, docs, buildLog, config,
                 pagesDir, processed,
                 varsCompile, varsWatch, varsDetect, varsRoutes, varsExtract>>

\* processSingleRoute for the next route: the document is written, or an
\* error of the read or the write is caught and logged and nothing is written
processSingleRoute(how) ==
  /\ stage = "html"
  /\ bundlePath # "none"
  /\ processed < Len(buildRoutes)
  /\ processed' = processed + 1
  /\ LET route == buildRoutes[processed + 1]
         source == sources[route.file]
         island == \E i \in 1..Len(serverIslands) : serverIslands[i].route = route.route
         staticHTML == IF island THEN extractStaticHTML(source) ELSE Null
     IN IF how = "caught"
        THEN /\ UNCHANGED docs
             /\ buildLog' = Append(buildLog, [route |-> route.route, line |-> "failed",
                                              hook |-> "none"])
        ELSE /\ docs' = Append(docs, generateHTMLTemplate(route, staticHTML, island))
             /\ buildLog' = IF staticHTML.log = "none" THEN buildLog
                            ELSE Append(buildLog, [route |-> route.route, line |-> staticHTML.log,
                                                   hook |-> staticHTML.hook])
  /\ UNCHANGED <<sources, stage, buildRoutes, serverIslands, bundlePath, config,
                 pagesDir, buildDir, exitCode, failedStage, ran,
                 varsCompile, varsWatch, varsDetect, varsRoutes, varsExtract>>

\* generateHTML: it throws while the packages are copied, before any route
\* (server.js:505-508), or returns after the last route, or returns at once
\* without a main bundle
generateHTML(how) ==
  /\ stage = "html"
  /\ IF how = "throws"
     THEN /\ bundlePath # "none" /\ processed = 0
          /\ buildFailed
     ELSE /\ bundlePath = "none" \/ processed = Len(buildRoutes)
          /\ stepDone("sitemap")
  /\ UNCHANGED <<sources, buildRoutes, serverIslands, docs, buildLog, bundlePath, config,
                 pagesDir, processed,
                 varsCompile, varsWatch, varsDetect, varsRoutes, varsExtract>>

\* generateSitemap and generateRobots, then the removal of .ernestbuild and
\* the summary; buildUI returns and the process ends with status 0
generateSitemap(how) ==
  /\ stage = "sitemap"
  /\ IF how = "throws"
     THEN buildFailed
     ELSE /\ stage' = "summary"
          /\ ran' = ran \cup {stage}
          /\ buildDir' = FALSE
          /\ exitCode' = "0"
          /\ UNCHANGED failedStage
  /\ UNCHANGED <<sources, buildRoutes, serverIslands, docs, buildLog, bundlePath, config,
                 pagesDir, processed,
                 varsCompile, varsWatch, varsDetect, varsRoutes, varsExtract>>

StepOutcomes == {"ok", "throws"}

NextBuild ==
  \/ BuildStart
  \/ \E how \in StepOutcomes : compileForBuild(how)
  \/ \E how \in StepOutcomes : buildCSS(how)
  \/ \E how \in StepOutcomes : generateBuildRouter(how)
  \/ \E how \in StepOutcomes : generateMainEntry(how)
  \/ \E result \in BundleNames \cup {"throws", "noMain"} : bundleJavaScript(result)
  \/ \E how \in {"written", "caught"} : processSingleRoute(how)
  \/ \E how \in StepOutcomes : generateHTML(how)
  \/ \E how \in StepOutcomes : generateSitemap(how)

TypeOKBuild ==
  /\ sources \in [SrcFiles -> Sources]
  /\ stage \in Range(StageOrder) \cup {"idle", "summary", "exited"}
  /\ Len(docs) <= processed /\ processed <= Len(buildRoutes)
  /\ Len(serverIslands) <= Len(buildRoutes)
  /\ exitCode \in {"running", "0", "1"}

(***************************************************************************)
(* Claims about the build (checked under SpecBuild)                        *)
(***************************************************************************)
SourceOfRoute(route) ==
  LET r == CHOOSE x \in Range(buildRoutes) : x.route = route IN sources[r.file]

HasViolation(sourceCode) ==
  \/ hooksFound(sourceCode) # {}
  \/ Includes(sourceCode, RouterImport)
  \/ validateServerIsland(sourceCode) # {}

\* C4: the document of a route whose source carries the Server Island marker
\* and breaks a rule (hook call, event-handler attribute, browser global,
\* client-router import) has an empty root container.
C4_ViolatingIslandHasEmptyRoot ==
  \A i \in 1..Len(docs) :
    LET sourceCode == SourceOfRoute(docs[i].route)
    IN (Includes(sourceCode, Marker) /\ HasViolation(sourceCode)) => docs[i].root = <<>>

\* the documents written so far for the route of file f
DocsOf(f) == {d \in Range(docs) : d.route = RouteOf(f).route}

NoReturnIsland(sourceCode) ==
  /\ Includes(sourceCode, Marker)
  /\ ~\E i, j \in 1..Len(sourceCode) :
        i < j /\ sourceCode[i] = ReturnOpen /\ sourceCode[j] = ReturnClose

\* processSingleRoute caught an error of the read or the write for the route of f
WriteCaught(f) ==
  \E k \in 1..Len(buildLog) :
    buildLog[k].route = RouteOf(f).route /\ buildLog[k].line = "failed"

\* C19: for a marked route whose source has no matching return (...),
\* extractStaticHTML is null, the build does not exit during HTML generation,
\* the route's document is written with an empty root container (unless the
\* write itself fails), and the remaining routes are processed too.
C19_NoReturnFallsBack ==
  \A f \in SrcFiles :
    NoReturnIsland(sources[f]) =>
      /\ extractStaticHTML(sources[f]).isNull
      /\ \A d \in DocsOf(f) : d.root = <<>> /\ d.island
      /\ (processed = Len(buildRoutes) /\ RouteOf(f) \in Range(buildRoutes)
            /\ bundlePath # "none" /\ ~WriteCaught(f)) => DocsOf(f) # {}
      /\ (stage \in {"sitemap", "summary"} /\ bundlePath # "none") =>
           processed = Len(buildRoutes)
      /\ failedStage = "html" => processed = 0

\* C19 witness: the first route is a marked island with no return match and
\* no other reason for null; both documents are written
C19_Witness ==
  /\ stage = "summary" /\ Len(docs) = 2
  /\ NoReturnIsland(sources[IndexPage])
  /\ hooksFound(sources[IndexPage]) = {}
  /\ ~Includes(sources[IndexPage], RouterImport)
  /\ docs[1].route = RouteOf(IndexPage).route /\ docs[1].root = <<>>

\* C20: a build of one purely static Server Island route and one ordinary
\* client route writes two documents: the island's has the extracted markup
\* in its root container, the client's has an empty one, and both refer to
\* the same bundle path.
C20_IslandAndClientDocuments ==
  (/\ sources[IndexPage] = IslandPage
   /\ sources[IdPage] = ClientPage
   /\ pagesDir
   /\ stage = "summary" /\ bundlePath # "none"
   /\ \A f \in SrcFiles : ~WriteCaught(f))
    => /\ Len(docs) = 2
       /\ \A d \in DocsOf(IndexPage) : d.island /\ d.root = <<Markup>>
       /\ \A d \in DocsOf(IdPage) : ~d.island /\ d.root = <<>>
       /\ DocsOf(IndexPage) # {} /\ DocsOf(IdPage) # {}
       /\ \A d \in Range(docs) : d.script = bundlePath /\ d.script \in BundleNames

\* C20 witness: that build has finished
C20_Witness ==
  /\ sources[IndexPage] = IslandPage
  /\ sources[IdPage] = ClientPage
  /\ stage = "summary" /\ Len(docs) = 2

\* C21: when a step of the build throws, no later step runs, .ernestbuild
\* does not exist once the build has ended, and the exit status is not zero.
C21_FailedBuildCleansUp ==
  failedStage # "none" =>
    /\ stage = "exited"
    /\ \A s \in ran : StageIndex(s) <= StageIndex(failedStage)
    /\ ~buildDir
    /\ exitCode = "1"

\* C21 witness: the bundler threw after the four steps before it
C21_Witness ==
  /\ stage = "exited"
  /\ failedStage = "bundle"
  /\ ran = {"compile", "css", "router", "entry", "bundle"}

\* C22: a build of a project without a pages directory fails in
\* compileForBuild; it does not go on with zero routes.
C22_MissingPagesDirFails ==
  (~pagesDir /\ "compile" \in ran) => (stage = "exited" /\ failedStage = "compile")

\* C23: with serverIslands disabled in the configuration no route is
\* classified as a Server Island and every document has an empty root
\* container.
C23_DisabledIslandsMeansEmptyRoots ==
  ~config.serverIslands =>
    /\ serverIslands = <<>>
    /\ \A i \in 1..Len(docs) : docs[i].root = <<>> /\ ~docs[i].island

\* C29: a build that reaches the summary and ends with status 0 has written
\* a document for every discovered route.
C29_CompletedBuildWroteEveryRoute ==
  (stage = "summary" /\ exitCode = "0") =>
    \A i \in 1..Len(buildRoutes) :
      \E k \in 1..Len(docs) : docs[k].route = buildRoutes[i].route

(***************************************************************************)
(* The HTML lowering of extractStaticHTML on its own, character by         *)
(* character (SpecExtract): what lines 45-112 of islands.js do to the text *)
(* the return match captured.  Texts are sequences of one-character        *)
(* strings.                                                                *)
(***************************************************************************)
WhiteSpace == {" ", "\t", "\n"}
Digits == {"0", "1", "2", "3", "4", "5", "6", "7", "8", "9"}
UpperCase ==
  {"A", "B", "C", "D", "E", "F", "G", "H", "I", "J", "K", "L", "M", "N", "O", "P", "Q", "R", "S", "T", "U", "V", "W", "X", "Y", "Z"}
LowerCase ==
  {"a", "b", "c", "d", "e", "f", "g", "h", "i", "j", "k", "l", "m", "n", "o", "p", "q", "r", "s", "t", "u", "v", "w", "x", "y", "z"}
\* \w of the tag-name pattern
WordChars == UpperCase \cup LowerCase \cup Digits \cup {"_"}
\* String.toLowerCase on one character
toLowerCase ==
  [c \in (WordChars \cup {"-", "."}) \ UpperCase |-> c] @@
  ("A" :> "a") @@ ("B" :> "b") @@ ("C" :> "c") @@ ("D" :> "d") @@ ("E" :> "e") @@ ("F" :> "f") @@
  ("G" :> "g") @@ ("H" :> "h") @@ ("I" :> "i") @@ ("J" :> "j") @@ ("K" :> "k") @@ ("L" :> "l") @@
  ("M" :> "m") @@ ("N" :> "n") @@ ("O" :> "o") @@ ("P" :> "p") @@ ("Q" :> "q") @@ ("R" :> "r") @@
  ("S" :> "s") @@ ("T" :> "t") @@ ("U" :> "u") @@ ("V" :> "v") @@ ("W" :> "w") @@ ("X" :> "x") @@
  ("Y" :> "y") @@ ("Z" :> "z")

voidElements ==
  { <<"a", "r", "e", "a">>,
    <<"b", "a", "s", "e">>,
    <<"b", "r">>,
    <<"c", "o", "l">>,
    <<"e", "m", "b", "e", "d">>,
    <<"h", "r">>,
    <<"i", "m", "g">>,
    <<"i", "n", "p", "u", "t">>,
    <<"l", "i", "n", "k">>,
    <<"m", "e", "t", "a">>,
    <<"p", "a", "r", "a", "m">>,
    <<"s", "o", "u", "r", "c", "e">>,
    <<"t", "r", "a", "c", "k">>,
    <<"w", "b", "r">> }

\* the back tick character (U+0060)
BackTick == "bt"

ClassNameEq == <<"c", "l", "a", "s", "s", "N", "a", "m", "e", "=">>
ClassEq == <<"c", "l", "a", "s", "s", "=">>
StyleOpen == <<"s", "t", "y", "l", "e", "=", "{", "{">>
CommentOpen == <<"{", "/", "*">>
CommentClose == <<"*", "/", "}">>

\* leftmost of a set of positions
FirstOf(positions) == CHOOSE i \in positions : \A j \in positions : i <= j
LastOf(positions) == CHOOSE i \in positions : \A j \in positions : j <= i

\* String.trim
trim(str) ==
  LET keep == {i \in 1..Len(str) : str[i] \notin WhiteSpace}
  IN IF keep = {} THEN <<>> ELSE SubSeq(str, FirstOf(keep), LastOf(keep))

\* str.replace(/pat/g, rep) for a literal pattern: every occurrence, left to right
RECURSIVE ReplaceAll(_, _, _)
ReplaceAll(str, pat, rep) ==
  LET i == IndexOf(str, pat)
  IN IF i = 0 THEN str
     ELSE SubSeq(str, 1, i - 1) \o rep \o
          ReplaceAll(SubSeq(str, i + Len(pat), Len(str)), pat, rep)

\* html.replace(/\{\/\*[\s\S]*?\*\/\}/g, ''): from each "{/*" to the nearest "*/}"
RECURSIVE removeComments(_)
removeComments(str) ==
  LET i == IndexOf(str, CommentOpen)
      ends == IF i = 0 THEN {}
              ELSE {k \in (i + Len(CommentOpen))..(Len(str) - Len(CommentClose) + 1) :
                      SubSeq(str, k, k + Len(CommentClose) - 1) = CommentClose}
  IN IF ends = {} THEN str
     ELSE SubSeq(str, 1, i - 1) \o
          removeComments(SubSeq(str, FirstOf(ends) + Len(CommentClose), Len(str)))

\* the splitting loop of the style callback: commas at parenthesis depth 0
RECURSIVE splitProps(_, _, _, _)
splitProps(styleObj, i, depth, currentProp) ==
  IF i > Len(styleObj)
  THEN IF trim(currentProp) # <<>> THEN <<trim(currentProp)>> ELSE <<>>
  ELSE LET char == styleObj[i]
           d == IF char = "(" THEN depth + 1
                ELSE IF char = ")" THEN depth - 1 ELSE depth
       IN IF char = "," /\ d = 0
          THEN <<trim(currentProp)>> \o splitProps(styleObj, i + 1, d, <<>>)
          ELSE splitProps(styleObj, i + 1, d, Append(currentProp, char))

\* key.toLowerCase() alone: no dash before the capitals
RECURSIVE cssKeyNoDash(_)
cssKeyNoDash(key) ==
  IF key = <<>> THEN <<>>
  ELSE <<toLowerCase[Head(key)]>> \o cssKeyNoDash(Tail(key))

\* key.replace(/([A-Z])/g, '-$1').toLowerCase()
RECURSIVE cssKey(_)
cssKey(key) ==
  IF key = <<>> THEN <<>>
  ELSE (IF Head(key) \in UpperCase THEN <<"-", toLowerCase[Head(key)]>>
        ELSE <<Head(key)>>) \o cssKey(Tail(key))

\* value.replace(/['"]/g, '')
cssValue(value) == SelectSeq(value, LAMBDA c : c \notin {"'", "\""})

\* the map callback: one "key: value" property to its css text, "" when it
\* has no colon, no key or no value
cssOfProp(prop) ==
  LET colonIndex == IndexOf(prop, <<":">>)
      key == trim(SubSeq(prop, 1, colonIndex - 1))
      value == trim(SubSeq(prop, colonIndex + 1, Len(prop)))
  IN IF colonIndex = 0 \/ key = <<>> \/ value = <<>> THEN <<>>
     ELSE cssKey(key) \o <<":", " ">> \o cssValue(value)

\* .filter(Boolean).join('; ')
RECURSIVE joinCss(_)
joinCss(props) ==
  LET kept == SelectSeq(props, LAMBDA p : p # <<>>)
  IN IF kept = <<>> THEN <<>>
     ELSE IF Len(kept) = 1 THEN kept[1]
     ELSE kept[1] \o <<";", " ">> \o joinCss(Tail(kept))

\* the replacement the style callback returns for the captured object text
cssString(styleObj) ==
  <<"s", "t", "y", "l", "e", "=", "\"">> \o
  joinCss([i \in 1..Len(splitProps(styleObj, 1, 0, <<>>)) |->
             cssOfProp(splitProps(styleObj, 1, 0, <<>>)[i])]) \o <<"\"">>

\* html.replace(/style=\{\{([^}]+)\}\}/g, callback): "style={{", at least one
\* character other than "}", then "}}"
RECURSIVE lowerStyles(_)
lowerStyles(str) ==
  LET i == IndexOf(str, StyleOpen)
      from == i + Len(StyleOpen)
      closers == {k \in from..Len(str) : str[k] = "}"}
      k == IF closers = {} THEN 0 ELSE FirstOf(closers)
      matched == k > from /\ k + 1 <= Len(str) /\ str[k + 1] = "}"
  IN IF i = 0 THEN str
     ELSE IF matched
     THEN SubSeq(str, 1, i - 1) \o cssString(SubSeq(str, from, k - 1)) \o
          lowerStyles(SubSeq(str, k + 2, Len(str)))
     ELSE SubSeq(str, 1, i) \o lowerStyles(SubSeq(str, i + 1, Len(str)))

\* html.replace(/<(\w+)([^>]*)\s*\/>/g, callback).  A match starts at a "<"
\* followed by a word character; the tag is the run of word characters; the
\* ">" of the match is the first ">" after the tag, and the character before
\* it has to be "/".  The greedy [^>]* takes everything between the tag and
\* that "/", white space included, so \s* matches nothing.
RECURSIVE expandSelfClosing(_)
expandSelfClosing(str) ==
  LET opens == {i \in 1..(Len(str) - 1) : str[i] = "<" /\ str[i + 1] \in WordChars}
      i == FirstOf(opens)
      nonWord == {k \in (i + 1)..Len(str) : str[k] \notin WordChars}
      tagEnd == IF nonWord = {} THEN Len(str) ELSE FirstOf(nonWord) - 1
      tag == SubSeq(str, i + 1, tagEnd)
      gts == {k \in (tagEnd + 1)..Len(str) : str[k] = ">"}
      p == IF gts = {} THEN 0 ELSE FirstOf(gts)
      matched == p > tagEnd + 1 /\ str[p - 1] = "/"
      attrs == SubSeq(str, tagEnd + 1, p - 2)
      match == SubSeq(str, i, p)
  IN IF opens = {} THEN str
     ELSE IF matched
     THEN SubSeq(str, 1, i - 1) \o
          (IF [n \in 1..Len(tag) |-> toLowerCase[tag[n]]] \in voidElements
           THEN match
           ELSE <<"<">> \o tag \o attrs \o <<">", "<", "/">> \o tag \o <<">">>) \o
          expandSelfClosing(SubSeq(str, p + 1, Len(str)))
     ELSE SubSeq(str, 1, i) \o expandSelfClosing(SubSeq(str, i + 1, Len(str)))

\* the template-literal replace of line 107: "{", a back tick, characters
\* other than a back tick, a back tick, "}"
RECURSIVE inlineTemplates(_)
inlineTemplates(str) ==
  LET opens == {i \in 1..(Len(str) - 1) : str[i] = "{" /\ str[i + 1] = BackTick}
      i == FirstOf(opens)
      ticks == {k \in (i + 2)..Len(str) : str[k] = BackTick}
      k == IF ticks = {} THEN 0 ELSE FirstOf(ticks)
      matched == k > 0 /\ k + 1 <= Len(str) /\ str[k + 1] = "}"
  IN IF opens = {} THEN str
     ELSE IF matched
     THEN SubSeq(str, 1, i - 1) \o SubSeq(str, i + 2, k - 1) \o
          inlineTemplates(SubSeq(str, k + 2, Len(str)))
     ELSE SubSeq(str, 1, i) \o inlineTemplates(SubSeq(str, i + 1, Len(str)))

\* the string-literal replace of line 108: "{", a quote, then up to the nearest
\* same quote followed
\* by "}", with no line break in between
RECURSIVE inlineStrings(_)
inlineStrings(str) ==
  LET opens == {i \in 1..(Len(str) - 1) : str[i] = "{" /\ str[i + 1] \in {"'", "\""}}
      i == FirstOf(opens)
      ends == {k \in (i + 2)..(Len(str) - 1) :
                 /\ str[k] = str[i + 1]
                 /\ str[k + 1] = "}"
                 /\ \A n \in (i + 2)..(k - 1) : str[n] # "\n"}
      k == FirstOf(ends)
  IN IF opens = {} THEN str
     ELSE IF ends # {}
     THEN SubSeq(str, 1, i - 1) \o SubSeq(str, i + 2, k - 1) \o
          inlineStrings(SubSeq(str, k + 2, Len(str)))
     ELSE SubSeq(str, 1, i) \o inlineStrings(SubSeq(str, i + 1, Len(str)))

\* html.replace(/\{(\d+)\}/g, '$1')
RECURSIVE inlineNumbers(_)
inlineNumbers(str) ==
  LET opens == {i \in 1..(Len(str) - 1) : str[i] = "{" /\ str[i + 1] \in Digits}
      i == FirstOf(opens)
      nonDigit == {k \in (i + 1)..Len(str) : str[k] \notin Digits}
      k == IF nonDigit = {} THEN 0 ELSE FirstOf(nonDigit)
      matched == k > 0 /\ str[k] = "}"
  IN IF opens = {} THEN str
     ELSE IF matched
     THEN SubSeq(str, 1, i - 1) \o SubSeq(str, i + 1, k - 1) \o
          inlineNumbers(SubSeq(str, k + 1, Len(str)))
     ELSE SubSeq(str, 1, i) \o inlineNumbers(SubSeq(str, i + 1, Len(str)))

\* lines 45-112: the html extractStaticHTML returns for the captured text
staticHTML(returnExpr) ==
  inlineNumbers(inlineStrings(inlineTemplates(expandSelfClosing(lowerStyles(
    ReplaceAll(removeComments(trim(returnExpr)), ClassNameEq, ClassEq))))))

\* ---- the return expressions fed to the lowering ----
\* attributes: the JSX text and the HTML the lowering is to give for it
ClassNameA ==
  [kind |-> "className", jsx |-> <<"c", "l", "a", "s", "s", "N", "a", "m", "e", "=", "\"", "a", "\"">>,
   html |-> <<"c", "l", "a", "s", "s", "=", "\"", "a", "\"">>]
SrcAttr ==
  [kind |-> "plain", jsx |-> <<"s", "r", "c", "=", "\"", "x", ".", "p", "n", "g", "\"">>,
   html |-> <<"s", "r", "c", "=", "\"", "x", ".", "p", "n", "g", "\"">>]
StyleTwo ==
  [kind |-> "style", jsx |-> <<"s", "t", "y", "l", "e", "=", "{", "{", "f", "o", "n", "t", "S", "i", "z", "e", ":", " ", "\"", "1", "0", "p", "x", "\"", ",", " ", "c", "o", "l", "o", "r", ":", " ", "'", "r", "e", "d", "'", "}", "}">>,
   html |-> <<"s", "t", "y", "l", "e", "=", "\"", "f", "o", "n", "t", "-", "s", "i", "z", "e", ":", " ", "1", "0", "p", "x", ";", " ", "c", "o", "l", "o", "r", ":", " ", "r", "e", "d", "\"">>]
StyleParen ==
  [kind |-> "style", jsx |-> <<"s", "t", "y", "l", "e", "=", "{", "{", " ", "W", "e", "b", "k", "i", "t", "B", "o", "x", "F", "l", "e", "x", ":", " ", "1", ",", " ", "c", "o", "l", "o", "r", ":", " ", "'", "r", "g", "b", "(", "1", ",", "2", ",", "3", ")", "'", " ", "}", "}">>,
   html |-> <<"s", "t", "y", "l", "e", "=", "\"", "-", "w", "e", "b", "k", "i", "t", "-", "b", "o", "x", "-", "f", "l", "e", "x", ":", " ", "1", ";", " ", "c", "o", "l", "o", "r", ":", " ", "r", "g", "b", "(", "1", ",", "2", ",", "3", ")", "\"">>]
TitleGt ==
  [kind |-> "plain", jsx |-> <<"t", "i", "t", "l", "e", "=", "\"", "a", ">", "b", "\"">>,
   html |-> <<"t", "i", "t", "l", "e", "=", "\"", "a", ">", "b", "\"">>]
AttrLists ==
  {<<>>, <<ClassNameA>>, <<SrcAttr>>, <<ClassNameA, StyleTwo>>, <<StyleParen>>, <<TitleGt>>}

\* text children of an element: plain text, a literal in braces (to be
\* unwrapped), a JSX comment (to be removed), any other expression in braces
\* (to be left as it is)
NoText == [kind |-> "none", jsx |-> <<>>, html |-> <<>>]
Texts ==
  { [kind |-> "plain", jsx |-> <<"t">>,
     html |-> <<"t">>],
    [kind |-> "literal", jsx |-> <<"{", "'", "h", "i", "'", "}">>,
     html |-> <<"h", "i">>],
    [kind |-> "literal", jsx |-> <<"{", BackTick, "h", "i", BackTick, "}">>,
     html |-> <<"h", "i">>],
    [kind |-> "literal", jsx |-> <<"{", "4", "2", "}">>,
     html |-> <<"4", "2">>],
    [kind |-> "comment", jsx |-> <<"{", "/", "*", " ", "c", " ", "*", "/", "}">>,
     html |-> <<>>],
    [kind |-> "expr", jsx |-> <<"{", "u", "s", "e", "r", ".", "n", "a", "m", "e", "}">>,
     html |-> <<"{", "u", "s", "e", "r", ".", "n", "a", "m", "e", "}">>],
    [kind |-> "expr", jsx |-> <<"{", "f", "n", "(", "1", ")", "}">>,
     html |-> <<"{", "f", "n", "(", "1", ")", "}">>],
    [kind |-> "expr", jsx |-> <<"{", "'", "a", "'", " ", "+", " ", "'", "b", "'", "}">>,
     html |-> <<"{", "'", "a", "'", " ", "+", " ", "'", "b", "'", "}">>],
    [kind |-> "expr", jsx |-> <<"{", BackTick, "a", "$", "{", "b", "}", BackTick, "}">>,
     html |-> <<"{", BackTick, "a", "$", "{", "b", "}", BackTick, "}">>] }

Img == <<"i", "m", "g">>
Br == <<"b", "r">>
Div == <<"d", "i", "v">>
Foo == <<"F", "o", "o">>
MyTag == <<"m", "y", "-", "t", "a", "g">>
TagNames == {Img, Br, Div, Foo, MyTag}

\* one tag: self-closed as "/>" (tight) or " />" (spaced), or an open/close
\* pair around a text
Tags ==
  [name : TagNames, attrs : AttrLists, form : {"tight", "spaced"}, text : {NoText}] \cup
  [name : TagNames, attrs : AttrLists, form : {"pair"}, text : Texts]

\* a return expression: the tag alone, or the tag inside a <div ...> parent
NoParent == [present |-> FALSE, attrs |-> <<>>]
Elements ==
  [tag : Tags, parent : {NoParent} \cup [present : {TRUE}, attrs : AttrLists]]

RECURSIVE attrsText(_, _)
attrsText(attrs, side) ==
  IF attrs = <<>> THEN <<>>
  ELSE <<" ">> \o Head(attrs)[side] \o attrsText(Tail(attrs), side)

\* the JSX text of a tag
tagJSX(t) ==
  <<"<">> \o t.name \o attrsText(t.attrs, "jsx") \o
  (IF t.form = "tight" THEN <<"/", ">">>
   ELSE IF t.form = "spaced" THEN <<" ", "/", ">">>
   ELSE <<">">> \o t.text.jsx \o <<"<", "/">> \o t.name \o <<">">>)

\* the return expression as written between the parentheses, with the line
\* breaks and indentation around it
blockOf(e) ==
  <<"\n", " ", " ">> \o
  (IF e.parent.present
   THEN <<"<">> \o Div \o attrsText(e.parent.attrs, "jsx") \o <<">">> \o
        tagJSX(e.tag) \o <<"<", "/">> \o Div \o <<">">>
   ELSE tagJSX(e.tag)) \o
  <<"\n">>

\* the source of the component function around the return expression
sourceOf(e) ==
  <<"f", "u", "n", "c", "t", "i", "o", "n", " ", "P", "(", ")", " ", "{", "\n", " ", "r", "e", "t", "u", "r", "n", " ", "(">> \o
  blockOf(e) \o <<")", ";", "\n", "}", "\n">>

Return == <<"r", "e", "t", "u", "r", "n">>

\* sourceCode.match(/return\s*\(([\s\S]*?)\);?\s*}/): from the leftmost
\* "return", white space and "(" for which there is one, the text up to the
\* nearest ")" that is followed by an optional ";", white space and "}"
returnCapture(sourceCode) ==
  LET afterSpace(m) ==
        FirstOf({n \in m..(Len(sourceCode) + 1) :
                   n = Len(sourceCode) + 1 \/ sourceCode[n] \notin WhiteSpace})
      closes(k) ==
        /\ sourceCode[k] = ")"
        /\ LET m == IF k + 1 <= Len(sourceCode) /\ sourceCode[k + 1] = ";"
                    THEN k + 2 ELSE k + 1
               n == afterSpace(m)
           IN n <= Len(sourceCode) /\ sourceCode[n] = "}"
      openOf(i) == afterSpace(i + Len(Return))
      starts == {i \in 1..(Len(sourceCode) - Len(Return) + 1) :
                   /\ SubSeq(sourceCode, i, i + Len(Return) - 1) = Return
                   /\ openOf(i) <= Len(sourceCode)
                   /\ sourceCode[openOf(i)] = "("
                   /\ \E k \in (openOf(i) + 1)..Len(sourceCode) : closes(k)}
      i == FirstOf(starts)
      k == FirstOf({x \in (openOf(i) + 1)..Len(sourceCode) : closes(x)})
  IN IF starts = {} THEN [isNull |-> TRUE, text |-> <<>>]
     ELSE [isNull |-> FALSE, text |-> SubSeq(sourceCode, openOf(i) + 1, k - 1)]

InitExtractIdle ==
  /\ element = [tag |-> [name |-> Div, attrs |-> <<>>, form |-> "pair", text |-> NoText],
                parent |-> NoParent]
  /\ captured = <<>>
  /\ html = <<>>
  /\ extracted = FALSE

InitReturnExpression ==
  /\ element \in Elements
  /\ captured = <<>>
  /\ html = <<>>
  /\ extracted = FALSE

\* the island file is saved with another return expression: the tag or the
\* parent around it was edited
EditReturnExpression(e) ==
  /\ e # element
  /\ e.tag = element.tag \/ e.parent = element.parent
  /\ element' = e
  /\ captured' = <<>>
  /\ html' = <<>>
  /\ extracted' = FALSE
  /\ UNCHANGED <<varsCompile, varsWatch, varsBuild, varsDetect, varsRoutes>>

\* extractStaticHTML from the return match on (the source has the marker, no
\* hook and no router import): null without a match, else the lowered text
LowerReturnExpression ==
  /\ ~extracted
  /\ LET returnMatch1 == returnCapture(sourceOf(element))
     IN /\ captured' = returnMatch1.text
        /\ html' = IF returnMatch1.isNull THEN <<>> ELSE staticHTML(returnMatch1.text)
  /\ extracted' = TRUE
  /\ UNCHANGED <<element, varsCompile, varsWatch, varsBuild, varsDetect, varsRoutes>>

NextExtract ==
  \/ \E e \in Elements : EditReturnExpression(e)
  \/ LowerReturnExpression

(***************************************************************************)
(* Claims about the HTML lowering (checked under SpecExtract)              *)
(***************************************************************************)
isVoid(name) == name \in voidElements
selfClosed(t) == t.form \in {"tight", "spaced"}

\* the HTML the claims describe for a tag: attributes lowered, a void
\* self-closed tag as written, any other self-closed tag as an open/close pair
tagHTML(t) ==
  <<"<">> \o t.name \o attrsText(t.attrs, "html") \o
  (IF selfClosed(t) /\ isVoid(t.name)
   THEN IF t.form = "tight" THEN <<"/", ">">> ELSE <<" ", "/", ">">>
   ELSE IF selfClosed(t) THEN <<">", "<", "/">> \o t.name \o <<">">>
   ELSE <<">">> \o t.text.html \o <<"<", "/">> \o t.name \o <<">">>)

expectedHTML(e) ==
  IF e.parent.present
  THEN <<"<">> \o Div \o attrsText(e.parent.attrs, "html") \o <<">">> \o
       tagHTML(e.tag) \o <<"<", "/">> \o Div \o <<">">>
  ELSE tagHTML(e.tag)

\* C17: for a return expression with className attributes, style objects of
\* simple key: value pairs and self-closed void elements (and no other
\* self-closed tag), the returned html has class= for every className=, each
\* style object as a css string (pairs in source order, keys in kebab-case,
\* quotes stripped, joined by "; ") and every void self-closed tag as written.
C17_AttributesLowered ==
  (/\ extracted
   /\ selfClosed(element.tag) => isVoid(element.tag.name)
   /\ element.tag.text.kind # "expr")
    => html = expectedHTML(element)

\* the expression of the specification's example: a div with className and a
\* two-pair style object around a tight self-closed img
C17_Witness ==
  /\ extracted
  /\ element.parent = [present |-> TRUE, attrs |-> <<ClassNameA, StyleTwo>>]
  /\ element.tag = [name |-> Img, attrs |-> <<SrcAttr>>, form |-> "tight", text |-> NoText]
  /\ html = <<"<", "d", "i", "v", " ", "c", "l", "a", "s", "s", "=", "\"", "a", "\"", " ", "s", "t", "y", "l", "e", "=", "\"", "f", "o", "n", "t", "-", "s", "i", "z", "e", ":", " ", "1", "0", "p", "x", ";", " ", "c", "o", "l", "o", "r", ":", " ", "r", "e", "d", "\"", ">", "<", "i", "m", "g", " ", "s", "r", "c", "=", "\"", "x", ".", "p", "n", "g", "\"", "/", ">", "<", "/", "d", "i", "v", ">">>

\* C18: every self-closed tag whose name is not a void element is rewritten to
\* an open/close pair of that tag with its attributes; <Foo /> becomes exactly
\* <Foo></Foo>.
C18_NonVoidSelfClosedExpanded ==
  (extracted /\ selfClosed(element.tag) /\ ~isVoid(element.tag.name))
    => html = expectedHTML(element)


\* C25: the text that is lowered to HTML is the entire content of the
\* outermost parenthesized block of the return statement, whatever
\* parentheses and braces occur inside it.
C25_WholeReturnBlockCaptured ==
  extracted => captured = blockOf(element)

\* C26: an expression in braces that is no comment, no style object, no
\* template literal without interpolation, no single quoted string literal and
\* no bare number is in the extracted HTML character for character.
C26_OtherExpressionsUntouched ==
  (extracted /\ element.tag.text.kind = "expr")
    => IndexOf(html, element.tag.text.jsx) # 0

Init == InitCompile /\ InitWatchIdle /\ InitBuildIdle /\ InitDetectIdle /\ InitRoutesIdle /\ InitExtractIdle
InitWatch == InitCompileIdle /\ InitWatchIdle /\ InitBuildIdle /\ InitDetectIdle /\ InitRoutesIdle /\ InitExtractIdle
InitBuild == InitCompileIdle /\ InitWatchIdle /\ InitBuildSources /\ InitDetectIdle /\ InitRoutesIdle /\ InitExtractIdle
InitDetect == InitCompile /\ InitWatchIdle /\ InitBuildIdle /\ InitDetectIdle /\ InitRoutesIdle /\ InitExtractIdle
InitRoutes == InitCompileIdle /\ InitWatchIdle /\ InitBuildIdle /\ InitDetectIdle /\ InitListing /\ InitExtractIdle
InitExtract == InitCompileIdle /\ InitWatchIdle /\ InitBuildIdle /\ InitDetectIdle /\ InitRoutesIdle /\ InitReturnExpression
Spec == Init /\ [][Next]_vars
SpecWatch == InitWatch /\ [][NextWatch]_vars
SpecBuild == InitBuild /\ [][NextBuild]_vars
SpecDetect == InitDetect /\ [][NextDetect]_vars
SpecRoutes == InitRoutes /\ [][NextRoutes]_vars
SpecExtract == InitExtract /\ [][NextExtract]_vars

====
